---- MODULE Spec2Model ----
(***************************************************************************)
(* Model of the NTCIP field-device server of alleyex/RPi-NTCIP:            *)
(*   - the frame codec (ntcip_parser.py, ntcip_communication.py),          *)
(*   - the message dispatcher (NTCIPServer.process_message and handlers),  *)
(*   - the accept loop and the per-connection session                      *)
(*     (NTCIPServer.start / handle_client).                                *)
(* Byte strings are sequences of naturals in 0..255.  Python indexes from  *)
(* 0 and accepts negative indexes; TLA+ sequences index from 1, so every   *)
(* access goes through At / Slice, which implement Python's rules.         *)
(***************************************************************************)
EXTENDS Integers, Sequences, FiniteSets, TLC

(***************************************************************************)
(* Control codes (NTCIPParser.__init__).                                   *)
(***************************************************************************)
DLE == 170
STX == 187
ETX == 204
ACK == 221
NAK == 238

(***************************************************************************)
(* Bounds of the model.                                                    *)
(***************************************************************************)
MaxInfoLen == 2

MaxDataLen == 2

MaxRawLen == 8

\* connections that may wait in the listen queue (listen(5) allows more)
MaxWaiting == 1

\* stop() calls from another thread
MaxStops == 2

\* length of the byte sequences handed to calculate_cks
MaxCksLen == 3

(***************************************************************************)
(* Python byte-string primitives.                                          *)
(***************************************************************************)
RECURSIVE XorBits(_, _, _)
XorBits(a, b, n) ==
    IF n = 0 THEN 0
    ELSE (((a % 2) + (b % 2)) % 2) + 2 * XorBits(a \div 2, b \div 2, n - 1)

\* a ^ b for every pair of bytes
XorTable == [a \in 0..255 |-> [b \in 0..255 |-> XorBits(a, b, 8)]]

\* a ^ b on two bytes
Xor(a, b) == XorTable[a][b]

\* data[i] is defined (no IndexError) for -len <= i < len
InRange(data, i) == i >= -Len(data) /\ i < Len(data)

\* data[i] for an index in range, negative indexes counting from the end
At(data, i) == IF i < 0 THEN data[Len(data) + i + 1] ELSE data[i + 1]

\* the clamping Python applies to a slice bound
SliceBound(data, i) ==
    IF i < 0 THEN (IF Len(data) + i < 0 THEN 0 ELSE Len(data) + i)
    ELSE (IF i > Len(data) THEN Len(data) ELSE i)

\* data[a:b]
Slice(data, a, b) ==
    LET lo == SliceBound(data, a)
        hi == SliceBound(data, b)
    IN  IF hi <= lo THEN << >> ELSE SubSeq(data, lo + 1, hi)

\* data[:-1]
AllButLast(data) == Slice(data, 0, -1)

\* n.to_bytes(2, 'big') / struct.pack('>H', n)
to_bytes2(n) == << n \div 256, n % 256 >>

\* (hi << 8) | lo / struct.unpack('>H', ...)
from_bytes2(hi, lo) == hi * 256 + lo

(***************************************************************************)
(* NTCIPParser: checksum.                                                  *)
(***************************************************************************)
\* cks after the loop of _xor_bytes has consumed the first n bytes
RECURSIVE XorLoop(_, _)
XorLoop(data, n) ==
    IF n = 0 THEN 0 ELSE Xor(XorLoop(data, n - 1), data[n])

\* _xor_bytes with the loop stopping before the last byte
_xor_bytes_SkipsLast(data) ==
    XorLoop(data, IF Len(data) = 0 THEN 0 ELSE Len(data) - 1)

_xor_bytes(data) == XorLoop(data, Len(data))

\* calculate_cks with the Ack checksum taken from the kind byte onwards
calculate_cks_AckFromKind(data, frame_type) ==
    CASE frame_type = "normal" -> _xor_bytes(data)
      [] frame_type = "ack"    -> _xor_bytes(Slice(data, 1, Len(data)))
      [] frame_type = "nak"    -> _xor_bytes(data)

\* what stands for `raise ValueError` where a checksum is expected
CksValueError == -1

\* every known frame type takes the same branch body
calculate_cks(data, frame_type) ==
    CASE frame_type = "normal" -> _xor_bytes(data)
      [] frame_type = "ack"    -> _xor_bytes(data)
      [] frame_type = "nak"    -> _xor_bytes(data)
      [] OTHER                 -> CksValueError

(***************************************************************************)
(* NTCIPParser.parse_frame and its three helpers.  The Python functions    *)
(* return a dict, return None after logging which check failed, or raise.  *)
(* The result record keeps the three outcomes apart: kind "ok" with the    *)
(* dict's fields, kind "none" with the check that logged the error, kind   *)
(* "raise" with the exception.                                             *)
(***************************************************************************)
ParseOk(seq, addr, length, info) ==
    [kind |-> "ok", seq |-> seq, addr |-> addr, length |-> length,
     info |-> info, err |-> ""]

ParseNone(err) ==
    [kind |-> "none", seq |-> 0, addr |-> 0, length |-> 0,
     info |-> << >>, err |-> err]

ParseRaise(exc) ==
    [kind |-> "raise", seq |-> 0, addr |-> 0, length |-> 0,
     info |-> << >>, err |-> exc]

\* _parse_normal_frame without the checksum comparison
_parse_normal_frame_NoCks(data) ==
    IF ~InRange(data, 6) THEN ParseRaise("IndexError")
    ELSE
    LET length == from_bytes2(At(data, 5), At(data, 6))
    IN  IF Len(data) < length THEN ParseNone("LengthMismatch")
        ELSE IF At(data, length - 3) # DLE \/ At(data, length - 2) # ETX
             THEN ParseNone("BadEndCode")
        ELSE ParseOk(At(data, 2), from_bytes2(At(data, 3), At(data, 4)),
                     length, Slice(data, 7, length - 3))

_parse_normal_frame(data) ==
    IF ~InRange(data, 6) THEN ParseRaise("IndexError")
    ELSE
    LET length == from_bytes2(At(data, 5), At(data, 6))
    IN  IF Len(data) < length THEN ParseNone("LengthMismatch")
        ELSE IF At(data, length - 3) # DLE \/ At(data, length - 2) # ETX
             THEN ParseNone("BadEndCode")
        ELSE IF calculate_cks(AllButLast(data), "normal") # At(data, -1)
             THEN ParseNone("ChecksumMismatch")
        ELSE ParseOk(At(data, 2), from_bytes2(At(data, 3), At(data, 4)),
                     length, Slice(data, 7, length - 3))

\* _parse_ack_frame with the sequence number read one byte too far
_parse_ack_frame_SeqAt3(data) ==
    IF Len(data) # 8 THEN ParseNone("BadLength")
    ELSE
    LET seq    == At(data, 3)
        addr   == from_bytes2(At(data, 3), At(data, 4))
        length == from_bytes2(At(data, 5), At(data, 6))
    IN  IF length # 8 THEN ParseNone("BadLength")
        ELSE IF At(data, -1) # calculate_cks(AllButLast(data), "ack")
             THEN ParseNone("ChecksumMismatch")
        ELSE ParseOk(seq, addr, length, << >>)

_parse_ack_frame(data) ==
    IF Len(data) # 8 THEN ParseNone("BadLength")
    ELSE
    LET seq    == At(data, 2)
        addr   == from_bytes2(At(data, 3), At(data, 4))
        length == from_bytes2(At(data, 5), At(data, 6))
    IN  IF length # 8 THEN ParseNone("BadLength")
        ELSE IF At(data, -1) # calculate_cks(AllButLast(data), "ack")
             THEN ParseNone("ChecksumMismatch")
        ELSE ParseOk(seq, addr, length, << >>)

\* _parse_nak_frame without the test of the error code
_parse_nak_frame_AnyErr(data) ==
    IF Len(data) # 9 THEN ParseNone("BadLength")
    ELSE IF At(data, 0) # DLE \/ At(data, 1) # NAK
         THEN ParseNone("BadStartCode")
    ELSE
    LET seq    == At(data, 2)
        addr   == from_bytes2(At(data, 3), At(data, 4))
        length == from_bytes2(At(data, 5), At(data, 6))
        err    == At(data, 7)
    IN  IF length # 9 THEN ParseNone("BadLength")
        ELSE IF At(data, -1) # calculate_cks(AllButLast(data), "nak")
             THEN ParseNone("ChecksumMismatch")
        ELSE ParseOk(seq, addr, length, << err >>)

_parse_nak_frame(data) ==
    IF Len(data) # 9 THEN ParseNone("BadLength")
    ELSE IF At(data, 0) # DLE \/ At(data, 1) # NAK
         THEN ParseNone("BadStartCode")
    ELSE
    LET seq    == At(data, 2)
        addr   == from_bytes2(At(data, 3), At(data, 4))
        length == from_bytes2(At(data, 5), At(data, 6))
        err    == At(data, 7)
    IN  IF length # 9 THEN ParseNone("BadLength")
        ELSE IF err \notin {1, 2, 4, 8} THEN ParseNone("BadErrCode")
        ELSE IF At(data, -1) # calculate_cks(AllButLast(data), "nak")
             THEN ParseNone("ChecksumMismatch")
        ELSE ParseOk(seq, addr, length, << err >>)

parse_frame(data) ==
    IF Len(data) < 6 THEN ParseNone("TooShort")
    ELSE IF At(data, 0) # DLE THEN ParseNone("BadStartCode")
    ELSE IF At(data, 1) = STX THEN _parse_normal_frame(data)
    ELSE IF At(data, 1) = ACK THEN _parse_ack_frame(data)
    ELSE IF At(data, 1) = NAK THEN _parse_nak_frame(data)
    ELSE ParseNone("UnknownFrameKind")

\* NTCIPParser.parse_message_type: None when fewer than two bytes
MsgNone == [none |-> TRUE, type |-> 0, code |-> 0, data |-> << >>]

parse_message_type(info) ==
    IF Len(info) < 2 THEN MsgNone
    ELSE [none |-> FALSE, type |-> At(info, 0), code |-> At(info, 1),
          data |-> Slice(info, 2, Len(info))]

(***************************************************************************)
(* The control-center simulator's own NTCIPParser                          *)
(* (control_center_simulator/ntcip_parser.py).                             *)
(***************************************************************************)
client_parse_normal_frame(data) ==
    IF ~InRange(data, 6) THEN ParseRaise("IndexError")
    ELSE
    LET length == from_bytes2(At(data, 5), At(data, 6))
    IN  IF Len(data) # length THEN ParseNone("LengthMismatch")
        ELSE IF At(data, length - 3) # DLE \/ At(data, length - 2) # ETX
             THEN ParseNone("BadEndCode")
        ELSE IF calculate_cks(AllButLast(data), "normal") # At(data, -1)
             THEN ParseNone("ChecksumMismatch")
        ELSE ParseOk(At(data, 2), from_bytes2(At(data, 3), At(data, 4)),
                     length, Slice(data, 7, length - 3))

client_parse_ack_frame(data) ==
    IF Len(data) # 8 THEN ParseNone("BadLength")
    ELSE
    LET seq    == At(data, 2)
        addr   == from_bytes2(At(data, 3), At(data, 4))
        length == from_bytes2(At(data, 5), At(data, 6))
    IN  IF length # 8 THEN ParseNone("BadLength")
        ELSE IF At(data, -1) # calculate_cks(AllButLast(data), "ack")
             THEN ParseNone("ChecksumMismatch")
        ELSE ParseOk(seq, addr, length, << >>)

client_parse_nak_frame(data) ==
    IF Len(data) # 9 THEN ParseNone("BadLength")
    ELSE
    LET seq    == At(data, 2)
        addr   == from_bytes2(At(data, 3), At(data, 4))
        length == from_bytes2(At(data, 5), At(data, 6))
        err    == At(data, 7)
    IN  IF length # 9 THEN ParseNone("BadLength")
        ELSE IF At(data, -1) # calculate_cks(AllButLast(data), "nak")
             THEN ParseNone("ChecksumMismatch")
        ELSE ParseOk(seq, addr, length, << err >>)

client_parse_frame(data) ==
    IF Len(data) < 6 THEN ParseNone("TooShort")
    ELSE IF At(data, 0) # DLE THEN ParseNone("BadStartCode")
    ELSE IF At(data, 1) = STX THEN client_parse_normal_frame(data)
    ELSE IF At(data, 1) = ACK THEN client_parse_ack_frame(data)
    ELSE IF At(data, 1) = NAK THEN client_parse_nak_frame(data)
    ELSE ParseNone("UnknownFrameKind")

(***************************************************************************)
(* NTCIPCommunication: frame construction.                                 *)
(***************************************************************************)
\* create_data_request with the checksum byte counted in the length field
create_data_request_CountsCks(seq, addr, info) ==
    LET total_length == 10 + Len(info)
        frame == << DLE, STX, seq >> \o to_bytes2(addr)
                 \o to_bytes2(total_length) \o info \o << DLE, ETX >>
    IN  Append(frame, calculate_cks(frame, "normal"))

create_data_request(seq, addr, info) ==
    LET total_length == 9 + Len(info)
        frame == << DLE, STX, seq >> \o to_bytes2(addr)
                 \o to_bytes2(total_length) \o info \o << DLE, ETX >>
    IN  Append(frame, calculate_cks(frame, "normal"))

\* create_ack with the address packed low byte first
create_ack_LittleEndian(seq, addr) ==
    LET frame == << DLE, ACK, seq, addr % 256, addr \div 256 >> \o to_bytes2(8)
    IN  Append(frame, calculate_cks(frame, "ack"))

create_ack(seq, addr) ==
    LET frame == << DLE, ACK, seq >> \o to_bytes2(addr) \o to_bytes2(8)
    IN  Append(frame, calculate_cks(frame, "ack"))

create_nak(seq, addr, err_code) ==
    LET frame == << DLE, NAK, seq >> \o to_bytes2(addr) \o to_bytes2(9)
                 \o << err_code >>
    IN  Append(frame, calculate_cks(frame, "nak"))

(***************************************************************************)
(* NTCIPServer: frame construction.                                        *)
(***************************************************************************)
\* create_ack_frame with the station's own address 0x0001 in place of addr
create_ack_frame_OwnAddr(seq, addr) ==
    LET frame == << DLE, ACK, seq >> \o to_bytes2(1) \o to_bytes2(8)
    IN  Append(frame, calculate_cks(frame, "ack"))

create_ack_frame(seq, addr) ==
    LET frame == << DLE, ACK, seq >> \o to_bytes2(addr) \o to_bytes2(8)
    IN  Append(frame, calculate_cks(frame, "ack"))

create_nak_frame(seq, addr, err_code) ==
    LET frame == << DLE, NAK, seq >> \o to_bytes2(addr) \o to_bytes2(9)
                 \o << err_code >>
    IN  Append(frame, calculate_cks(frame, "nak"))

(***************************************************************************)
(* NTCIPServer: message dispatcher.  A handler returns bytes or None.      *)
(* time.localtime() is an input of the time-sync handler: current_time is  *)
(* the record of its tm_hour, tm_min and tm_sec fields.                    *)
(***************************************************************************)
RespNone == [none |-> TRUE, bytes |-> << >>]

RespBytes(b) == [none |-> FALSE, bytes |-> b]

Abs(x) == IF x < 0 THEN -x ELSE x

Min(x, y) == IF x < y THEN x ELSE y

_create_setting_response(command_id, seq) ==
    IF Len(command_id) # 2 THEN RespNone
    ELSE
    LET response == << DLE, STX, seq, 0, 1, 0, 14, 15, 128,
                       At(command_id, 0), At(command_id, 1), DLE, ETX >>
    IN  RespBytes(Append(response, calculate_cks(response, "normal")))

\* the range test with the weekday taken as 0..6
TimeFieldsValid_Week0(month, day, week, hour, minute, second) ==
    /\ 1 <= month  /\ month <= 12
    /\ 1 <= day    /\ day <= 31
    /\ 0 <= week   /\ week <= 6
    /\ 0 <= hour   /\ hour <= 23
    /\ 0 <= minute /\ minute <= 59
    /\ 0 <= second /\ second <= 59

\* the conjunction tested at "驗證時間參數"
TimeFieldsValid(month, day, week, hour, minute, second) ==
    /\ 1 <= month  /\ month <= 12
    /\ 1 <= day    /\ day <= 31
    /\ 1 <= week   /\ week <= 7
    /\ 0 <= hour   /\ hour <= 23
    /\ 0 <= minute /\ minute <= 59
    /\ 0 <= second /\ second <= 59

\* the difference taken without abs()
TimeDiff_NoAbs(hour, minute, second, current_time) ==
    (hour * 3600 + minute * 60 + second)
    - (current_time.tm_hour * 3600 + current_time.tm_min * 60
       + current_time.tm_sec)

\* abs(requested seconds of day - local seconds of day)
TimeDiff(hour, minute, second, current_time) ==
    Abs((hour * 3600 + minute * 60 + second)
        - (current_time.tm_hour * 3600 + current_time.tm_min * 60
           + current_time.tm_sec))

\* _handle_basic_message with replies numbered seq + 1 instead of seq
_handle_basic_message_NextSeq(msg_code, msg_data, seq, current_time) ==
    LET next_seq == (seq + 1) % 256
    IN  IF msg_code = 16 THEN
            LET response == << DLE, STX, next_seq, 0, 1, 0, 14, 15, 144,
                               82, 82, DLE, ETX >>
            IN  RespBytes(Append(response, calculate_cks(response, "normal")))
        ELSE IF msg_code = 18 /\ Len(msg_data) = 7
                /\ TimeFieldsValid(At(msg_data, 1), At(msg_data, 2),
                                   At(msg_data, 3), At(msg_data, 4),
                                   At(msg_data, 5), At(msg_data, 6)) THEN
            LET time_diff == TimeDiff(At(msg_data, 4), At(msg_data, 5),
                                      At(msg_data, 6), current_time)
            IN  IF time_diff > 3 THEN
                    LET response == << DLE, STX, next_seq, 0, 1, 0, 14, 15,
                                       146, Min(time_diff, 128), DLE, ETX >>
                    IN  RespBytes(Append(response,
                                         calculate_cks(response, "normal")))
                ELSE _create_setting_response(<< 15, 18 >>, next_seq)
        ELSE RespNone

\* _handle_basic_message with the reset route taken only for the "RR"
\* parameter
_handle_basic_message_ResetRR(msg_code, msg_data, seq, current_time) ==
    IF msg_code = 16 /\ msg_data = << 82, 82 >> THEN
        LET response == << DLE, STX, seq, 0, 1, 0, 14, 15, 144, 82, 82,
                           DLE, ETX >>
        IN  RespBytes(Append(response, calculate_cks(response, "normal")))
    ELSE RespNone

_handle_basic_message(msg_code, msg_data, seq, current_time) ==
    IF msg_code = 16 THEN
        LET response == << DLE, STX, seq, 0, 1, 0, 14, 15, 144, 82, 82,
                           DLE, ETX >>
        IN  RespBytes(Append(response, calculate_cks(response, "normal")))
    ELSE IF msg_code = 18 THEN
        IF Len(msg_data) # 7 THEN RespNone
        ELSE
        LET month  == At(msg_data, 1)
            day    == At(msg_data, 2)
            week   == At(msg_data, 3)
            hour   == At(msg_data, 4)
            minute == At(msg_data, 5)
            second == At(msg_data, 6)
        IN  IF ~TimeFieldsValid(month, day, week, hour, minute, second)
            THEN RespNone
            ELSE
            LET time_diff == TimeDiff(hour, minute, second, current_time)
            IN  IF time_diff > 3 THEN
                    LET response == << DLE, STX, seq, 0, 1, 0, 14, 15, 146,
                                       Min(time_diff, 128), DLE, ETX >>
                    IN  RespBytes(Append(response,
                                         calculate_cks(response, "normal")))
                ELSE _create_setting_response(<< 15, 18 >>, seq)
    ELSE RespNone

\* the signal-controller handler answering with a setting response
_handle_signal_message_Replies(msg_code, msg_data) ==
    _create_setting_response(<< 95, msg_code >>, 0)

_handle_signal_message(msg_code, msg_data) == RespNone

_handle_detector_message(msg_code, msg_data) == RespNone

\* process_message with the signal-controller route sent to the basic handler
process_message_SignalAsBasic(frame, current_time) ==
    IF frame.info = << >> THEN RespNone
    ELSE
    LET msg_info == parse_message_type(frame.info)
    IN  IF msg_info.none THEN RespNone
        ELSE IF msg_info.type = 15 \/ msg_info.type = 95
             THEN _handle_basic_message(msg_info.code, msg_info.data,
                                        frame.seq, current_time)
        ELSE IF msg_info.type = 111
             THEN _handle_detector_message(msg_info.code, msg_info.data)
        ELSE RespNone

\* frame is a parse_frame result of kind "ok"
process_message(frame, current_time) ==
    IF frame.info = << >> THEN RespNone
    ELSE
    LET msg_info == parse_message_type(frame.info)
    IN  IF msg_info.none THEN RespNone
        ELSE IF msg_info.type = 15
             THEN _handle_basic_message(msg_info.code, msg_info.data,
                                        frame.seq, current_time)
        ELSE IF msg_info.type = 95
             THEN _handle_signal_message(msg_info.code, msg_info.data)
        ELSE IF msg_info.type = 111
             THEN _handle_detector_message(msg_info.code, msg_info.data)
        ELSE RespNone

(***************************************************************************)
(* ControlCenterGUI._create_data_request: the frame the control-center     *)
(* client puts on the wire for a given sequence number (length field       *)
(* counts the checksum byte).                                              *)
(***************************************************************************)
\* the client's frame with the checksum byte left out of the length field
client_create_data_request_NoCks(seq, addr, info) ==
    LET total_length == 9 + Len(info)
        frame == << DLE, STX, seq >> \o to_bytes2(addr)
                 \o to_bytes2(total_length) \o info \o << DLE, ETX >>
    IN  Append(frame, calculate_cks(frame, "normal"))

client_create_data_request(seq, addr, info) ==
    LET total_length == 10 + Len(info)
        frame == << DLE, STX, seq >> \o to_bytes2(addr)
                 \o to_bytes2(total_length) \o info \o << DLE, ETX >>
    IN  Append(frame, calculate_cks(frame, "normal"))

(***************************************************************************)
(* Input domains.                                                          *)
(***************************************************************************)
SeqsUpTo(S, n) == UNION { [1..k -> S] : k \in 0..n }

Zeros(n) == [i \in 1..n |-> 0]

Seqs == {0, 1, 255}

\* 65535 is the reserved invalid address
Addrs == {0, 1, 65535}

InfoBytes == {0, 15, 16, DLE, ETX}

CodecInfos == SeqsUpTo(InfoBytes, MaxInfoLen)

\* tm_hour, tm_min, tm_sec of the local clock
Clocks == { [tm_hour |-> 12, tm_min |-> 0,  tm_sec |-> 0],
            [tm_hour |-> 0,  tm_min |-> 0,  tm_sec |-> 1],
            [tm_hour |-> 23, tm_min |-> 59, tm_sec |-> 59] }

\* hour, minute, second triples of time-sync requests
TimesOfDay == { <<12, 0, 0>>, <<12, 0, 3>>, <<12, 0, 4>>, <<12, 2, 8>>,
                <<12, 2, 9>>, <<12, 3, 20>>, <<11, 59, 57>>, <<11, 59, 56>>,
                <<0, 0, 0>>, <<23, 59, 59>>, <<24, 0, 0>>, <<12, 60, 0>>,
                <<12, 0, 60>> }

\* year, month, day, weekday, hour, minute, second
TimeDatas == { << y, mo, d, w >> \o t :
                 y \in {0, 255}, mo \in {0, 1, 12, 13}, d \in {0, 31, 32},
                 w \in {0, 7, 8}, t \in TimesOfDay }

MsgTypes == {15, 95, 111, 0}

MsgCodes == {16, 18, 17}

MsgDatas == SeqsUpTo({0, 82}, MaxDataLen) \cup TimeDatas
            \cup { << 24, 6, 15, 1, 12, 0, 0, 0 >>, << 24, 6, 15, 1, 12, 0 >> }

DispatchInfos == { << t, c >> \o d : t \in MsgTypes, c \in MsgCodes,
                                     d \in MsgDatas }
                 \cup { << >>, << 15 >>, << 95 >>, << 111 >>, << 0 >> }

\* payloads of the Data frames a session receives
SessionInfos == { << 15, 16, 82, 82 >>, << 15, 16 >>,
                  << 15, 18, 24, 6, 15, 1, 12, 0, 0 >>,
                  << 15, 18, 24, 6, 15, 1, 12, 0, 3 >>,
                  << 15, 18, 24, 6, 15, 1, 12, 0, 4 >>,
                  << 15, 18, 24, 6, 15, 1, 12, 3, 20 >>,
                  << 15, 18, 24, 13, 15, 1, 12, 0, 0 >>,
                  << 15, 18, 24, 6 >>,
                  << 15, 17 >>, << 95, 16 >>, << 111, 16 >>, << 0, 16 >>,
                  << 15 >>, << >> }

\* Data frames of the control center: every payload at address 1, some at
\* the reserved address 0xFFFF and one at address 0x0102
WellFormedData ==
    { client_create_data_request(s, 1, i) : s \in {1, 255}, i \in SessionInfos }
    \cup { client_create_data_request(s, 65535, i) :
             s \in {1, 255}, i \in { << 15, 16, 82, 82 >>, << >> } }
    \cup { client_create_data_request(1, 258, << 15, 16, 82, 82 >>) }

WellFormedAcks == { create_ack(s, a) : s \in Seqs, a \in {1, 65535} }

WellFormedNaks == { create_nak(1, a, e) : a \in {1, 65535},
                                          e \in {1, 4, 3} }

\* strings of 1..MaxRawLen bytes: a first byte followed by zeros
RawStrings == { << b >> \o Zeros(n) :
                  b \in {0, STX, DLE}, n \in 0..(MaxRawLen - 1) }

\* strings with a Data, Ack or Nak header cut short or left unfinished
Truncated == { << DLE, k, 1, 0, 1 >> \o Zeros(n) :
                 k \in {STX, ACK, NAK, ETX}, n \in 0..4 }

\* frames of NTCIPCommunication.create_data_request (length field excludes
\* the checksum byte)
OwnEncoderData == { create_data_request(1, 1, i) :
                      i \in { << 15, 16, 82, 82 >>, << >> } }

\* a Data frame whose checksum byte is wrong
BadChecksumData == { LET f == client_create_data_request(1, 1, << 15, 16 >>)
                     IN  [f EXCEPT ![Len(f)] = Xor(f[Len(f)], 1)] }

\* every non-empty byte string a peer sends in this model
Inbound == WellFormedData \cup WellFormedAcks \cup WellFormedNaks
           \cup RawStrings \cup Truncated \cup OwnEncoderData
           \cup BadChecksumData \cup { << DLE, ETX >> }

\* what a peer sends after the server's reply
AwaitInbound == { create_ack(1, 1), create_ack(255, 1), create_ack(1, 65535) }
                \cup BadChecksumData
                \cup { create_nak(1, 1, 2), create_nak(255, 1, 3) }
                \cup { << DLE, ETX >>, << 0 >>, << DLE, STX, 1, 0, 1, 0 >>,
                       << DLE, ACK, 1, 0, 1, 0, 8 >> }
                \cup { client_create_data_request(1, 1, << 15, 16 >>) }

\* the reads of the passes in which a send raises: a request with a reply,
\* one without, one at the reserved address, and bytes that do not parse
SendFailInbound ==
    { client_create_data_request(1, 1, << 15, 16, 82, 82 >>),
      client_create_data_request(1, 1, << 15, 17 >>),
      client_create_data_request(1, 65535, << >>),
      << 0 >> }

\* the wall clock read by process_message within a session
SessionClocks == { c \in Clocks : c.tm_hour = 12 }

\* client addresses and configured control-center address (None when no
\* configuration could be loaded)
ClientIps == {"10.0.0.1", "10.0.0.2"}

ConfiguredIps == {"None", "10.0.0.1"}

(***************************************************************************)
(* State.                                                                  *)
(*   Listener and session (NTCIPServer.start / handle_client):             *)
(*     control_center_ip, is_test_mode  configuration fields               *)
(*     pc         where the server thread is: "init" (constructed, start   *)
(*                not yet called), "stopped" (start has failed), or        *)
(*                blocked in "accept" (accept() in start), "recv" (the     *)
(*                recv at the top of the session loop, Idle), "await"      *)
(*                (the recv that waits for the control center's Ack of a   *)
(*                reply)                                                   *)
(*     sock       the client socket: "none", "open" or "closed"            *)
(*     rx         the bytes of the last read in Idle                       *)
(*     rx2        the bytes of the last read while awaiting the final Ack  *)
(*     frame      parse_frame's result for rx                              *)
(*     sent       the frames sent since the last read in Idle, in order    *)
(*     dispatched whether process_message ran for rx                       *)
(*     peer_closed whether the peer has closed its end                     *)
(*     running, server_socket  the listener fields set by start / stop     *)
(*     client_address  client_address[0] of the last accepted connection   *)
(*     sent_before_dispatch  how many frames had been sent for rx when     *)
(*                process_message was called (-1: it was not called)       *)
(*     io_failed  whether the last pass ended by an exception of recv or   *)
(*                send                                                     *)
(*     quiet      whether the peer of the open session has stopped sending *)
(*                (while keeping its connection open)                      *)
(*     waiting    connections completed by clients and not yet returned by *)
(*                accept()                                                 *)
(*   Codec harness: cargs, wire, wire2, parsed, cstage; cks_type and       *)
(*     cks_value, the frame type calculate_cks was called with and what it *)
(*     returned                                                            *)
(*   Dispatcher harness: mframe, mnow, mreply, mstage                      *)
(*   Control-center simulator (ControlCenterGUI):                          *)
(*     sequence_number, is_connected  its fields                           *)
(*     client_tx  the Data-kind frame its last command built              *)
(*     client_originated  whether client_tx came from _create_data_request *)
(*     client_ack_data, client_response_data  the bytes of the two reads   *)
(*                of _send_request, when it was the last command (empty:   *)
(*                end of stream, or not read)                              *)
(*     client_sent  the frames that _send_request sent after the request   *)
(*     client_returned  what that _send_request returned: "True" or        *)
(*                "False"; "none" when the last command was another one    *)
(*   stop() called from another thread than start()'s:                     *)
(*     stop_returned  how many such calls have returned                    *)
(*     accepted_after_stop  whether accept() has returned a connection     *)
(*                since the first of them returned                         *)
(***************************************************************************)
VARIABLES control_center_ip, is_test_mode, pc, sock, rx, rx2, frame, sent,
          dispatched, peer_closed,
          running, server_socket, client_address, sent_before_dispatch, io_failed,
          quiet, waiting,
          cargs, wire, wire2, parsed, cstage,
          mframe, mnow, mreply, mstage,
          sequence_number, is_connected, client_tx, client_originated,
          client_ack_data, client_response_data, client_sent, client_returned,
          stop_returned, accepted_after_stop,
          cks_type, cks_value

config_vars == << control_center_ip, is_test_mode >>

session_vars == << pc, sock, rx, rx2, frame, sent, dispatched, peer_closed >>

listener_vars == << running, server_socket >>

env_vars == << quiet, waiting >>

cks_vars == << cks_type, cks_value >>

codec_vars == << cargs, wire, wire2, parsed, cstage, cks_type, cks_value >>

dispatch_vars == << mframe, mnow, mreply, mstage >>

client_vars == << sequence_number, is_connected, client_tx,
                  client_originated, client_ack_data, client_response_data,
                  client_sent, client_returned >>

stop_vars == << stop_returned, accepted_after_stop >>

vars == << control_center_ip, is_test_mode, pc, sock, rx, rx2, frame, sent,
           dispatched, peer_closed,
           running, server_socket, client_address, sent_before_dispatch, io_failed,
           quiet, waiting,
           cargs, wire, wire2, parsed, cstage,
           mframe, mnow, mreply, mstage,
           sequence_number, is_connected, client_tx, client_originated,
           client_ack_data, client_response_data, client_sent,
           client_returned, stop_returned, accepted_after_stop,
           cks_type, cks_value >>

NoFrame == ParseNone("")

NoClock == [tm_hour |-> 0, tm_min |-> 0, tm_sec |-> 0]

\* the fields after NTCIPServer.__init__: not started, no connection
SessionIdle ==
    /\ pc = "init" /\ sock = "none"
    /\ rx = << >> /\ rx2 = << >> /\ frame = NoFrame /\ sent = << >>
    /\ dispatched = FALSE /\ peer_closed = FALSE
    /\ running = FALSE /\ server_socket = "None"
    /\ client_address = "none" /\ sent_before_dispatch = -1
    /\ io_failed = FALSE
    /\ quiet = FALSE /\ waiting = 0

CodecIdle ==
    /\ cargs = [seq |-> 0, addr |-> 0, info |-> << >>]
    /\ wire = << >> /\ wire2 = << >> /\ parsed = NoFrame /\ cstage = "idle"
    /\ cks_type = "" /\ cks_value = 0

DispatchIdle ==
    /\ mframe = NoFrame /\ mnow = NoClock /\ mreply = RespNone
    /\ mstage = "idle"

\* the fields after ControlCenterGUI.__init__
ClientIdle ==
    /\ sequence_number = 0 /\ is_connected = FALSE
    /\ client_tx = << >> /\ client_originated = FALSE
    /\ client_ack_data = << >> /\ client_response_data = << >>
    /\ client_sent = << >> /\ client_returned = "none"

\* no stop() from another thread yet
StopIdle == stop_returned = 0 /\ accepted_after_stop = FALSE

(***************************************************************************)
(* NTCIPServer._is_control_center                                          *)
(***************************************************************************)
\* _is_control_center without the branch for a missing configuration
_is_control_center_Strict(client_ip) ==
    IF is_test_mode THEN TRUE
    ELSE client_ip = control_center_ip

_is_control_center(client_ip) ==
    IF is_test_mode THEN TRUE
    ELSE IF control_center_ip = "None" THEN TRUE
    ELSE client_ip = control_center_ip

(***************************************************************************)
(* NTCIPServer.start: accept() returns a connection and handle_client runs *)
(* in the same thread up to its first blocking read.                       *)
(***************************************************************************)
\* start(): the listener socket is bound and the accept loop entered
Start ==
    /\ pc = "init"
    /\ running' = TRUE /\ server_socket' = "listening"
    /\ pc' = "accept"
    /\ UNCHANGED << sock, rx, rx2, frame, sent, dispatched, peer_closed,
                    client_address, sent_before_dispatch, io_failed,
                    config_vars, env_vars, codec_vars, dispatch_vars,
                    client_vars, stop_vars >>

\* start(): socket(), bind() or listen() raises; finally: stop(); raise
StartFails ==
    /\ pc = "init"
    /\ running' = FALSE /\ server_socket' = "None"
    /\ pc' = "stopped"
    /\ UNCHANGED << sock, rx, rx2, frame, sent, dispatched, peer_closed,
                    client_address, sent_before_dispatch, io_failed,
                    config_vars, env_vars, codec_vars, dispatch_vars,
                    client_vars, stop_vars >>

\* HandleAccepted returning for a rejected client without closing its socket
HandleAccepted_NoClose(ip) ==
    /\ client_address' = ip
    /\ rx' = << >> /\ rx2' = << >> /\ frame' = NoFrame /\ sent' = << >>
    /\ dispatched' = FALSE /\ peer_closed' = FALSE
    /\ sent_before_dispatch' = -1 /\ io_failed' = FALSE
    /\ IF ~_is_control_center(ip)
       THEN sock' = "open" /\ pc' = "accept"
       ELSE sock' = "open" /\ pc' = "recv"
    /\ UNCHANGED << config_vars, listener_vars, codec_vars, dispatch_vars,
                    client_vars, stop_vars >>

\* handle_client after accept(): the allow-list test and, for an allowed
\* client, the way to the first recv
HandleAccepted(ip) ==
    /\ client_address' = ip
    /\ rx' = << >> /\ rx2' = << >> /\ frame' = NoFrame /\ sent' = << >>
    /\ dispatched' = FALSE /\ peer_closed' = FALSE
    /\ sent_before_dispatch' = -1 /\ io_failed' = FALSE
    /\ IF ~_is_control_center(ip)
       THEN sock' = "closed" /\ pc' = "accept"
       ELSE sock' = "open" /\ pc' = "recv"
    /\ UNCHANGED << config_vars, listener_vars, codec_vars, dispatch_vars,
                    client_vars, stop_vars >>

\* a client connects while the server is blocked in accept()
Accept ==
    /\ pc = "accept" /\ running /\ waiting = 0
    /\ \E ip \in ClientIps : HandleAccepted(ip)
    /\ UNCHANGED env_vars

\* the end of a session by an exception that leaves handle_client and the
\* accept loop: finally: self.stop()
SessionEnds_Propagates ==
    /\ sock' = "closed" /\ pc' = "stopped"
    /\ running' = FALSE /\ server_socket' = "None"

\* handle_client returns to the accept loop with the client socket closed
SessionEnds ==
    /\ sock' = "closed" /\ pc' = "accept"
    /\ UNCHANGED listener_vars

(***************************************************************************)
(* handle_client, one pass of the loop for a non-empty read in Idle: from  *)
(* the recv at the top of the loop to the next blocking recv.              *)
(***************************************************************************)
\* the seq, addr and error code of the Nak for bytes that did not parse
NakForUnparsed(data) ==
    IF Len(data) < 7 THEN [seq |-> 0, addr |-> 0, err_code |-> 2]
    ELSE IF At(data, 0) # DLE THEN [seq |-> 0, addr |-> 0, err_code |-> 1]
    ELSE IF At(data, 1) # STX THEN [seq |-> 0, addr |-> 0, err_code |-> 1]
    ELSE [seq |-> At(data, 2),
          addr |-> from_bytes2(At(data, 3), At(data, 4)),
          err_code |-> 2]

\* the address test with 0 taken for the reserved address
AddrIsInvalid_Zero(f) == f.addr = 0

\* frame['addr'] == 0xFFFF
AddrIsInvalid(f) == f.addr = 65535

\* RecvIdle with a handler that clears self.running
RecvIdle_HandlerStops ==
    /\ pc = "recv" /\ ~peer_closed
    /\ \E data \in Inbound :
       LET f == parse_frame(data)
       IN  /\ data # << >>
           /\ rx' = data /\ rx2' = << >>
           /\ frame' = f
           /\ IF f.kind = "raise" THEN
                  \* except Exception ... finally: client_socket.close()
                  /\ sent' = << >> /\ dispatched' = FALSE
                  /\ sent_before_dispatch' = -1
                  /\ SessionEnds
              ELSE IF f.kind = "ok" THEN
                  IF AddrIsInvalid(f) THEN
                      /\ sent' = << create_nak_frame(f.seq, f.addr, 4) >>
                      /\ dispatched' = FALSE
                      /\ sent_before_dispatch' = -1
                      /\ pc' = "recv" /\ UNCHANGED << sock, listener_vars >>
                  ELSE
                      \E current_time \in SessionClocks :
                      LET ack_frame == create_ack_frame(f.seq, f.addr)
                          response  == process_message(f, current_time)
                      IN  /\ dispatched' = TRUE
                          /\ sent_before_dispatch' = 1
                          /\ running' = FALSE
                          /\ UNCHANGED << sock, server_socket >>
                          /\ IF ~response.none
                             THEN /\ sent' = << ack_frame, response.bytes >>
                                  /\ pc' = "await"
                             ELSE /\ sent' = << ack_frame >>
                                  /\ pc' = "recv"
              ELSE
                  LET n == NakForUnparsed(data)
                  IN  /\ sent' = << create_nak_frame(n.seq, n.addr,
                                                     n.err_code) >>
                      /\ dispatched' = FALSE
                      /\ sent_before_dispatch' = -1
                      /\ pc' = "recv" /\ UNCHANGED << sock, listener_vars >>
    /\ io_failed' = FALSE
    /\ UNCHANGED << peer_closed, client_address, config_vars, env_vars, codec_vars,
                    dispatch_vars,
                    client_vars, stop_vars >>

RecvIdle ==
    /\ pc = "recv" /\ ~peer_closed
    /\ \E data \in Inbound :
       LET f == parse_frame(data)
       IN  /\ data # << >>
           /\ rx' = data /\ rx2' = << >>
           /\ frame' = f
           /\ IF f.kind = "raise" THEN
                  \* except Exception ... finally: client_socket.close()
                  /\ sent' = << >> /\ dispatched' = FALSE
                  /\ sent_before_dispatch' = -1
                  /\ SessionEnds
              ELSE IF f.kind = "ok" THEN
                  IF AddrIsInvalid(f) THEN
                      /\ sent' = << create_nak_frame(f.seq, f.addr, 4) >>
                      /\ dispatched' = FALSE
                      /\ sent_before_dispatch' = -1
                      /\ pc' = "recv" /\ UNCHANGED << sock, listener_vars >>
                  ELSE
                      \E current_time \in SessionClocks :
                      LET ack_frame == create_ack_frame(f.seq, f.addr)
                          response  == process_message(f, current_time)
                      IN  /\ dispatched' = TRUE
                          /\ sent_before_dispatch' = 1
                          /\ UNCHANGED << sock, listener_vars >>
                          /\ IF ~response.none
                             THEN /\ sent' = << ack_frame, response.bytes >>
                                  /\ pc' = "await"
                             ELSE /\ sent' = << ack_frame >>
                                  /\ pc' = "recv"
              ELSE
                  LET n == NakForUnparsed(data)
                  IN  /\ sent' = << create_nak_frame(n.seq, n.addr,
                                                     n.err_code) >>
                      /\ dispatched' = FALSE
                      /\ sent_before_dispatch' = -1
                      /\ pc' = "recv" /\ UNCHANGED << sock, listener_vars >>
    /\ io_failed' = FALSE
    /\ UNCHANGED << peer_closed, client_address, config_vars, env_vars, codec_vars,
                    dispatch_vars,
                    client_vars, stop_vars >>

\* recv returns b'' in Idle: break, finally close
RecvIdleEof ==
    /\ pc = "recv"
    /\ SessionEnds
    /\ peer_closed' = TRUE
    /\ UNCHANGED << rx, rx2, frame, sent, dispatched, client_address,
                    sent_before_dispatch, io_failed,
                    config_vars, env_vars, codec_vars, dispatch_vars,
                    client_vars, stop_vars >>

(***************************************************************************)
(* handle_client, the wait for the control center's Ack after a reply.     *)
(***************************************************************************)
\* RecvAwait with the sequence comparison inverted
RecvAwait_SeqInverted ==
    /\ pc = "await"
    /\ \E ack_data \in AwaitInbound :
       LET ack_result == parse_frame(ack_data)
           nak_frame  == create_nak_frame(frame.seq, frame.addr, 2)
       IN  /\ ack_data # << >>
           /\ rx2' = ack_data
           /\ IF ack_result.kind = "ok" /\ ack_result.seq # frame.seq
              THEN sent' = sent
              ELSE sent' = Append(sent, nak_frame)
    /\ pc' = "recv"
    /\ UNCHANGED << sock, rx, frame, dispatched, peer_closed, client_address,
                    sent_before_dispatch, io_failed, listener_vars,
                    config_vars, env_vars, codec_vars, dispatch_vars,
                    client_vars, stop_vars >>

RecvAwait ==
    /\ pc = "await"
    /\ \E ack_data \in AwaitInbound :
       LET ack_result == parse_frame(ack_data)
           nak_frame  == create_nak_frame(frame.seq, frame.addr, 2)
       IN  /\ ack_data # << >>
           /\ rx2' = ack_data
           /\ IF ack_result.kind = "ok" /\ ack_result.seq = frame.seq
              THEN sent' = sent
              ELSE sent' = Append(sent, nak_frame)
    /\ pc' = "recv"
    /\ UNCHANGED << sock, rx, frame, dispatched, peer_closed, client_address,
                    sent_before_dispatch, io_failed, listener_vars,
                    config_vars, env_vars, codec_vars, dispatch_vars,
                    client_vars, stop_vars >>

\* recv returns b'' while awaiting the Ack: a Nak is sent and the loop goes on
RecvAwaitEof ==
    /\ pc = "await"
    /\ rx2' = << >>
    /\ sent' = Append(sent, create_nak_frame(frame.seq, frame.addr, 2))
    /\ peer_closed' = TRUE
    /\ pc' = "recv"
    /\ UNCHANGED << sock, rx, frame, dispatched, client_address,
                    sent_before_dispatch, io_failed, listener_vars,
                    config_vars, env_vars, codec_vars, dispatch_vars,
                    client_vars, stop_vars >>

(***************************************************************************)
(* handle_client, the passes that end by an exception of recv or send      *)
(* (OSError: connection reset, broken pipe).                               *)
(***************************************************************************)
\* the frames one pass in Idle sends for the bytes `data`, in order
IdleSends(data, current_time) ==
    LET f == parse_frame(data)
    IN  IF f.kind = "raise" THEN << >>
        ELSE IF f.kind = "ok" THEN
            IF AddrIsInvalid(f)
            THEN << create_nak_frame(f.seq, f.addr, 4) >>
            ELSE LET response == process_message(f, current_time)
                 IN  IF ~response.none
                     THEN << create_ack_frame(f.seq, f.addr), response.bytes >>
                     ELSE << create_ack_frame(f.seq, f.addr) >>
        ELSE LET n == NakForUnparsed(data)
             IN  << create_nak_frame(n.seq, n.addr, n.err_code) >>

\* recv raises in Idle: except Exception, finally close
RecvIdleRaises ==
    /\ pc = "recv" /\ ~peer_closed
    /\ io_failed' = TRUE
    /\ SessionEnds
    /\ UNCHANGED << rx, rx2, frame, sent, dispatched, peer_closed,
                    client_address, sent_before_dispatch,
                    config_vars, env_vars, codec_vars, dispatch_vars,
                    client_vars, stop_vars >>

\* a send of the pass in Idle raises after `k` frames went out: except
\* Exception, finally close
SendIdleRaises ==
    /\ pc = "recv" /\ ~peer_closed
    /\ \E data \in SendFailInbound :
       LET f == parse_frame(data)
       IN  /\ data # << >>
           /\ rx' = data /\ rx2' = << >>
           /\ frame' = f
           /\ \E current_time \in SessionClocks :
              LET sends == IdleSends(data, current_time)
              IN  \E k \in 0..(Len(sends) - 1) :
                      /\ sent' = Slice(sends, 0, k)
                      /\ dispatched' = (k = 1)
                      /\ sent_before_dispatch' = IF k = 1 THEN 1 ELSE -1
    /\ io_failed' = TRUE
    /\ SessionEnds
    /\ UNCHANGED << peer_closed, client_address, config_vars, env_vars,
                    codec_vars, dispatch_vars,
                    client_vars, stop_vars >>

\* recv raises while awaiting the Ack: the inner except Exception sends a
\* Nak; that send succeeds (the loop goes on) or raises (outer except,
\* finally close)
RecvAwaitRaises ==
    /\ pc = "await"
    /\ rx2' = << >>
    /\ io_failed' = TRUE
    /\ \/ /\ sent' = Append(sent, create_nak_frame(frame.seq, frame.addr, 2))
          /\ pc' = "recv" /\ UNCHANGED << sock, listener_vars >>
       \/ /\ sent' = sent
          /\ SessionEnds
    /\ UNCHANGED << rx, frame, dispatched, peer_closed, client_address,
                    sent_before_dispatch,
                    config_vars, env_vars, codec_vars, dispatch_vars,
                    client_vars, stop_vars >>

Init ==
    /\ control_center_ip \in ConfiguredIps
    /\ is_test_mode \in BOOLEAN
    /\ is_test_mode => control_center_ip # "None"
    /\ SessionIdle /\ CodecIdle /\ DispatchIdle /\ ClientIdle /\ StopIdle

Next ==
    \/ Start
    \/ StartFails
    \/ Accept
    \/ RecvIdle
    \/ RecvIdleEof
    \/ RecvAwait
    \/ RecvAwaitEof
    \/ RecvIdleRaises
    \/ SendIdleRaises
    \/ RecvAwaitRaises

Spec == Init /\ [][Next]_vars

(***************************************************************************)
(* The listener and a session with their environment made explicit: a peer *)
(* may stop sending while it keeps its connection open, and a client's     *)
(* connection waits in the listen queue until accept() returns it.         *)
(* start() calls handle_client in the thread of the accept loop, so        *)
(* accept() is called again only when handle_client has returned.          *)
(***************************************************************************)
\* the reads of a session in this specification
LiveInbound ==
    { client_create_data_request(1, 1, << 15, 16, 82, 82 >>),
      client_create_data_request(1, 1, << 15, 17 >>),
      create_ack(1, 1), << 0 >>, << DLE, STX, 1, 0, 1, 0 >> }

\* the peer of the open session sends nothing from now on (no bytes, no FIN)
PeerGoesQuiet ==
    /\ sock = "open" /\ pc \in {"recv", "await"} /\ ~quiet
    /\ quiet' = TRUE
    /\ UNCHANGED << waiting, config_vars, session_vars, listener_vars,
                    client_address, sent_before_dispatch, io_failed,
                    codec_vars, dispatch_vars,
                    client_vars, stop_vars >>

\* a client connects, whatever the server thread is doing: the connection is
\* completed by the listening socket and waits for accept()
ClientConnects ==
    /\ server_socket = "listening"
    /\ waiting < MaxWaiting
    /\ waiting' = waiting + 1
    /\ UNCHANGED << quiet, config_vars, session_vars, listener_vars,
                    client_address, sent_before_dispatch, io_failed,
                    codec_vars, dispatch_vars,
                    client_vars, stop_vars >>

\* accept() returns a connection that was waiting
AcceptQueued ==
    /\ pc = "accept" /\ running /\ waiting > 0
    /\ \E ip \in ClientIps : HandleAccepted(ip)
    /\ waiting' = waiting - 1
    /\ quiet' = FALSE

\* what the server does when its blocking recv returns or raises
PeerActs ==
    /\ ~quiet
    /\ \/ RecvIdle /\ rx' \in LiveInbound
       \/ RecvIdleEof
       \/ RecvAwait /\ rx2' \in LiveInbound
       \/ RecvAwaitEof
       \/ RecvIdleRaises
       \/ SendIdleRaises
       \/ RecvAwaitRaises

InitLive ==
    /\ control_center_ip = "10.0.0.1" /\ is_test_mode \in BOOLEAN
    /\ SessionIdle /\ CodecIdle /\ DispatchIdle /\ ClientIdle /\ StopIdle

NextLive ==
    \/ Start
    \/ StartFails
    \/ PeerActs
    \/ PeerGoesQuiet
    \/ ClientConnects
    \/ AcceptQueued

\* the server thread runs whenever it is not blocked: accept() returns when a
\* connection waits, recv returns when the peer has sent or closed
FairLive == WF_vars(Start \/ StartFails) /\ WF_vars(AcceptQueued)
            /\ WF_vars(PeerActs)

SpecLive == InitLive /\ [][NextLive]_vars /\ FairLive

(***************************************************************************)
(* start() in the server thread, statement by statement, with stop()       *)
(* called from another thread (the test's `finally: server.stop()`).  In   *)
(* this specification pc is the statement the server thread is at: "init", *)
(* "bind" (the socket is created), "set_running" (it listens), "while"     *)
(* (the loop test), "call_accept" (about to evaluate                       *)
(* self.server_socket.accept), "accept" (blocked in accept()), "session"   *)
(* (in handle_client), "stopped" (start has returned or raised).           *)
(***************************************************************************)
\* the variables start() and stop() leave alone
start_frame == << rx, rx2, frame, sent, dispatched, peer_closed,
                 sent_before_dispatch, io_failed, quiet, config_vars,
                 codec_vars, dispatch_vars, client_vars >>

\* finally: self.stop(), at the end of start()
start_finally ==
    /\ running' = FALSE /\ server_socket' = "None"
    /\ pc' = "stopped"

\* self.server_socket = socket.socket(...)
start_socket ==
    /\ pc = "init"
    /\ server_socket' = "created"
    /\ pc' = "bind"
    /\ UNCHANGED << running, sock, client_address, waiting, stop_vars,
                    start_frame >>

\* setsockopt, bind, listen: AttributeError when stop() has set
\* self.server_socket to None, OSError when the port is taken
start_listen ==
    /\ pc = "bind"
    /\ \/ server_socket = "created" /\ server_socket' = "listening"
          /\ pc' = "set_running" /\ UNCHANGED running
       \/ start_finally
    /\ UNCHANGED << sock, client_address, waiting, stop_vars, start_frame >>

\* self.running = True
start_set_running ==
    /\ pc = "set_running"
    /\ running' = TRUE
    /\ pc' = "while"
    /\ UNCHANGED << server_socket, sock, client_address, waiting, stop_vars,
                    start_frame >>

\* while self.running:
start_while ==
    /\ pc = "while"
    /\ IF running
       THEN pc' = "call_accept" /\ UNCHANGED << running, server_socket >>
       ELSE start_finally
    /\ UNCHANGED << sock, client_address, waiting, stop_vars, start_frame >>

\* self.server_socket.accept is evaluated: AttributeError on None, caught by
\* the except of the loop body
start_call_accept ==
    /\ pc = "call_accept"
    /\ pc' = IF server_socket = "None" THEN "while" ELSE "accept"
    /\ UNCHANGED << running, server_socket, sock, client_address, waiting,
                    stop_vars, start_frame >>

\* accept() returns a connection; handle_client is entered.  When stop() has
\* closed the socket under the blocked accept(), whether the call still
\* returns a connection or raises is left to the platform.
start_accept_returns ==
    /\ pc = "accept" /\ waiting > 0
    /\ waiting' = waiting - 1
    /\ \E ip \in ClientIps : client_address' = ip
    /\ sock' = "open"
    /\ pc' = "session"
    /\ accepted_after_stop' = (accepted_after_stop \/ stop_returned > 0)
    /\ UNCHANGED << running, server_socket, stop_returned, start_frame >>

\* accept() raises OSError because stop() has closed the socket
start_accept_raises ==
    /\ pc = "accept" /\ server_socket = "None"
    /\ pc' = "while"
    /\ UNCHANGED << running, server_socket, sock, client_address, waiting,
                    stop_vars, start_frame >>

\* handle_client returns
start_session_over ==
    /\ pc = "session"
    /\ sock' = "closed"
    /\ pc' = "while"
    /\ UNCHANGED << running, server_socket, client_address, waiting,
                    stop_vars, start_frame >>

\* a client's connection is completed by the listening socket
start_client_connects ==
    /\ server_socket = "listening"
    /\ waiting < MaxWaiting
    /\ waiting' = waiting + 1
    /\ UNCHANGED << pc, running, server_socket, sock, client_address,
                    stop_vars, start_frame >>

\* stop() runs in another thread and returns; connections that were waiting
\* are dropped with the socket unless accept() is in progress on it
stop ==
    /\ stop_returned < MaxStops
    /\ pc # "stopped"
    /\ running' = FALSE
    /\ server_socket' = "None"
    /\ waiting' = IF pc = "accept" THEN waiting ELSE 0
    /\ stop_returned' = stop_returned + 1
    /\ UNCHANGED << pc, sock, client_address, accepted_after_stop,
                    start_frame >>

InitStop ==
    /\ control_center_ip = "None" /\ is_test_mode = FALSE
    /\ SessionIdle /\ CodecIdle /\ DispatchIdle /\ ClientIdle /\ StopIdle

NextStop ==
    \/ start_socket
    \/ start_listen
    \/ start_set_running
    \/ start_while
    \/ start_call_accept
    \/ start_accept_returns
    \/ start_accept_raises
    \/ start_session_over
    \/ start_client_connects
    \/ stop

SpecStop == InitStop /\ [][NextStop]_vars

(***************************************************************************)
(* The control-center simulator (ControlCenterGUI): its connect button and *)
(* its three command buttons.  client_tx follows the Data-kind frames it    *)
(* builds; the Ack and Nak frames it sends while handling the answers do    *)
(* not touch sequence_number and are not followed.  A command that raises  *)
(* before it has built its frame leaves client_tx empty.                    *)
(***************************************************************************)
\* what int(self.addr_entry.get()) can be: the default 1, and a number that
\* does not fit in two bytes
ClientAddrs == {1, 70000}

\* the info fields of the reset command and of a time-sync command
ClientInfos == { << 15, 16, 82, 82 >>, << 15, 18, 24, 6, 15, 1, 12, 0, 0 >> }

\* _connect: connects when disconnected (the connection may fail), and
\* disconnects when connected
_connect ==
    /\ is_connected' \in (IF is_connected THEN {FALSE} ELSE {TRUE, FALSE})
    /\ UNCHANGED << sequence_number, client_tx, client_originated,
                    client_ack_data, client_response_data, client_sent,
                    client_returned,
                    config_vars, session_vars, listener_vars, client_address,
                    sent_before_dispatch, io_failed, env_vars, codec_vars,
                    dispatch_vars, stop_vars >>

\* self.sequence_number = (self.sequence_number + 1) % 256
NextSequenceNumber(n) == (n + 1) % 256

\* what the first recv of _send_request can return after the request with
\* sequence number seq went out: end of stream, the Ack of the request, an
\* Ack with another number, a Nak (address error), bytes that do not parse
ClientAckReads(seq, addr) ==
    { << >>, create_ack_frame(seq, addr),
      create_ack_frame((seq + 1) % 256, addr),
      create_nak_frame(seq, addr, 4), << 0 >> }

\* what the second recv can return: end of stream, the reset report numbered
\* seq, the same report with another number, an Ack, bytes that do not parse
ClientResponseReads(seq, addr) ==
    { << >>,
      _handle_basic_message(16, << 82, 82 >>, seq, NoClock).bytes,
      _handle_basic_message(16, << 82, 82 >>, (seq + 7) % 256, NoClock).bytes,
      create_ack_frame(seq, addr), << DLE, STX >> }

\* the Nak _send_request builds when a read does not parse
client_nak_frame(seq, addr) ==
    LET nak_frame == << DLE, NAK, seq >> \o to_bytes2(addr) \o to_bytes2(9)
                     \o << 2 >>
    IN  Append(nak_frame, calculate_cks(nak_frame, "nak"))

\* the Ack _send_request builds for the response it has parsed
client_ack_frame(response_frame) ==
    LET ack_frame == << DLE, ACK, response_frame.seq >>
                     \o to_bytes2(response_frame.addr) \o to_bytes2(8)
    IN  Append(ack_frame, calculate_cks(ack_frame, "ack"))

\* the four things kept of one _send_request
Outcome(ack_data, response_data, frames, value) ==
    /\ client_ack_data' = ack_data
    /\ client_response_data' = response_data
    /\ client_sent' = frames
    /\ client_returned' = value

\* what _send_request does with the two reads once the request numbered seq
\* is out: the reads it makes, the frames it sends and the value it returns
Exchange(ack_data, response_data, seq, addr) ==
    IF ack_data = << >> THEN Outcome(ack_data, << >>, << >>, "False")
    ELSE
    LET ack_frame == client_parse_frame(ack_data)
    IN  IF ack_frame.kind = "raise"
        THEN Outcome(ack_data, << >>, << >>, "False")
        ELSE IF ack_frame.kind # "ok"
        THEN Outcome(ack_data, << >>, << client_nak_frame(seq, addr) >>,
                     "False")
        ELSE IF response_data = << >>
        THEN Outcome(ack_data, response_data, << >>, "False")
        ELSE
        LET response_frame == client_parse_frame(response_data)
        IN  IF response_frame.kind = "raise"
            THEN Outcome(ack_data, response_data, << >>, "False")
            ELSE IF response_frame.kind # "ok"
            THEN Outcome(ack_data, response_data,
                         << client_nak_frame(seq, addr) >>, "False")
            ELSE Outcome(ack_data, response_data,
                         << client_ack_frame(response_frame) >>, "True")

\* _send_request -> _create_data_request: the counter is advanced first, then
\* the frame is built; addr.to_bytes(2, 'big') raises OverflowError for an
\* address outside 0..65535 and _send_request's except returns False.  The
\* request sent, the Ack and the response are read and answered.
_send_request ==
    /\ is_connected
    /\ sequence_number' = NextSequenceNumber(sequence_number)
    /\ \E addr \in ClientAddrs, info \in ClientInfos :
           IF addr \in 0..65535
           THEN /\ client_tx' = client_create_data_request(sequence_number',
                                                          addr, info)
                /\ client_originated' = TRUE
                /\ \E ack_data \in ClientAckReads(sequence_number', addr),
                      response_data \in
                          ClientResponseReads(sequence_number', addr) :
                      Exchange(ack_data, response_data, sequence_number',
                               addr)
           ELSE /\ client_tx' = << >> /\ client_originated' = FALSE
                /\ client_ack_data' = << >> /\ client_response_data' = << >>
                /\ client_sent' = << >> /\ client_returned' = "False"
    /\ UNCHANGED << is_connected,
                    config_vars, session_vars, listener_vars, client_address,
                    sent_before_dispatch, io_failed, env_vars, codec_vars,
                    dispatch_vars, stop_vars >>

\* _send_test_nak: a Data-kind frame with a wrong length field (20) and a
\* wrong checksum (FF), numbered with the counter as it stands; the answer
\* is read and only logged
_send_test_nak ==
    /\ \E addr \in ClientAddrs :
           IF addr \in 0..65535
           THEN /\ client_tx' = << DLE, STX, sequence_number >>
                                 \o to_bytes2(addr) \o to_bytes2(20)
                                 \o << 15, 16, 82, 82 >> \o << DLE, ETX >>
                                 \o << 255 >>
                /\ client_originated' = FALSE
           ELSE client_tx' = << >> /\ client_originated' = FALSE
    /\ client_ack_data' = << >> /\ client_response_data' = << >>
    /\ client_sent' = << >> /\ client_returned' = "none"
    /\ UNCHANGED << sequence_number, is_connected,
                    config_vars, session_vars, listener_vars, client_address,
                    sent_before_dispatch, io_failed, env_vars, codec_vars,
                    dispatch_vars, stop_vars >>

InitClient ==
    /\ control_center_ip = "None" /\ is_test_mode = FALSE
    /\ SessionIdle /\ CodecIdle /\ DispatchIdle /\ ClientIdle /\ StopIdle

NextClient ==
    \/ _connect
    \/ _send_request
    \/ _send_test_nak

SpecClient == InitClient /\ [][NextClient]_vars

(***************************************************************************)
(* Codec harness: a frame is built by create_data_request, optionally one  *)
(* bit of a non-checksum byte is flipped, and the bytes are parsed.        *)
(***************************************************************************)
\* data with bit `bit` of byte `pos` (0-based) inverted
FlipBitAt(data, pos, bit) ==
    [data EXCEPT ![pos + 1] = Xor(data[pos + 1], 2 ^ bit)]

EncodeData ==
    /\ cstage = "idle"
    /\ \E seq \in Seqs, addr \in Addrs, info \in CodecInfos :
           /\ cargs' = [seq |-> seq, addr |-> addr, info |-> info]
           /\ wire' = create_data_request(seq, addr, info)
    /\ cstage' = "encoded"
    /\ UNCHANGED << parsed, wire2, config_vars, session_vars, listener_vars,
                    client_address, sent_before_dispatch, io_failed, env_vars,
                    dispatch_vars,
                    client_vars, stop_vars,
                    cks_vars >>

FlipBit ==
    /\ cstage = "encoded"
    /\ \E pos \in 0..(Len(wire) - 2), bit \in 0..7 :
           wire' = FlipBitAt(wire, pos, bit)
    /\ cstage' = "flipped"
    /\ UNCHANGED << cargs, parsed, wire2, config_vars, session_vars,
                    listener_vars, client_address, sent_before_dispatch, io_failed,
                    env_vars, dispatch_vars,
                    client_vars, stop_vars,
                    cks_vars >>

Decode ==
    /\ cstage \in {"encoded", "flipped"}
    /\ parsed' = parse_frame(wire)
    /\ cstage' = IF cstage = "encoded" THEN "decoded" ELSE "decoded_flipped"
    /\ UNCHANGED << cargs, wire, wire2, config_vars, session_vars,
                    listener_vars, client_address, sent_before_dispatch, io_failed,
                    env_vars, dispatch_vars,
                    client_vars, stop_vars,
                    cks_vars >>

\* the bytes of a Data-kind frame with the given length field and `extra`
\* bytes between the end code and the checksum byte, the checksum byte being
\* the XOR of all bytes before it
RawData(seq, addr, length, info, extra) ==
    LET body == << DLE, STX, seq >> \o to_bytes2(addr) \o to_bytes2(length)
                \o info \o << DLE, ETX >> \o extra
    IN  Append(body, _xor_bytes(body))

\* byte strings handed to parse_frame as they come off the wire: Data-kind
\* frames with every length field from 0 to past their size, with and
\* without extra bytes before the checksum byte or after it
CodecRaws ==
    { RawData(1, 1, l, i, e) :
        l \in 0..(MaxInfoLen + 12), i \in SeqsUpTo({15}, MaxInfoLen),
        e \in { << >>, << 0 >>, << 7, 7 >> } }
    \cup { RawData(1, 1, 10 + Len(i), i, << >>) \o t :
             i \in SeqsUpTo({15}, MaxInfoLen), t \in { << 0 >>, << 5, 5 >> } }

\* parse_frame applied to bytes that no encoder of the repository produced
DecodeRaw ==
    /\ cstage = "idle"
    /\ \E data \in CodecRaws :
           /\ wire' = data
           /\ parsed' = parse_frame(data)
    /\ cstage' = "decoded_raw"
    /\ UNCHANGED << cargs, wire2, config_vars, session_vars, listener_vars,
                    client_address, sent_before_dispatch, io_failed, env_vars,
                    dispatch_vars,
                    client_vars, stop_vars,
                    cks_vars >>

\* byte strings whose second byte is ACK: a first byte, seq 1, address
\* 0x0001, a length field, extra bytes, and a last byte that is the XOR of
\* the bytes before it or differs from it in one bit; and Ack headers cut
\* short
AckRaws ==
    { LET body == << b0, ACK, 1, 0, 1 >> \o to_bytes2(length) \o extra
          cks  == _xor_bytes(body)
      IN  Append(body, IF flip < 0 THEN cks ELSE Xor(cks, 2 ^ flip)) :
        b0 \in {DLE, 0, STX}, length \in {0, 7, 8, 9, 264, 2048},
        extra \in { << >>, << 0 >>, << 8 >> }, flip \in {-1, 0, 7} }
    \cup { << DLE, ACK >>, << DLE, ACK, 1, 0, 1, 0 >>,
           << DLE, ACK, 1, 0, 1, 0, 8 >>, << DLE, ACK, 8, 0, 8, 0, 8 >>,
           << DLE, ACK, 1, 0, 0, 8, 122 >> }

\* parse_frame applied to Ack-kind bytes that no encoder produced
DecodeRawAck ==
    /\ cstage = "idle"
    /\ \E data \in AckRaws :
           /\ wire' = data
           /\ parsed' = parse_frame(data)
    /\ cstage' = "decoded_raw_ack"
    /\ UNCHANGED << cargs, wire2, config_vars, session_vars, listener_vars,
                    client_address, sent_before_dispatch, io_failed, env_vars,
                    dispatch_vars,
                    client_vars, stop_vars,
                    cks_vars >>

\* sequence numbers and addresses of the Ack frames built: the ends of the
\* ranges, the values of the control codes, and an address whose two bytes
\* differ
AckSeqs == {0, 1, 8, DLE, ACK, 255}

AckAddrs == {0, 1, 255, 256, 258, 43707, 65535}

\* both Ack builders are called with the same arguments
EncodeAck ==
    /\ cstage = "idle"
    /\ \E seq \in AckSeqs, addr \in AckAddrs :
           /\ cargs' = [seq |-> seq, addr |-> addr, info |-> << >>]
           /\ wire' = create_ack(seq, addr)
           /\ wire2' = create_ack_frame(seq, addr)
    /\ cstage' = "ack_encoded"
    /\ UNCHANGED << parsed, config_vars, session_vars, listener_vars,
                    client_address, sent_before_dispatch, io_failed, env_vars,
                    dispatch_vars,
                    client_vars, stop_vars,
                    cks_vars >>

\* parse_frame applied to the Ack frame of create_ack
DecodeAck ==
    /\ cstage = "ack_encoded"
    /\ parsed' = parse_frame(wire)
    /\ cstage' = "ack_decoded"
    /\ UNCHANGED << cargs, wire, wire2, config_vars, session_vars,
                    listener_vars, client_address, sent_before_dispatch,
                    io_failed, env_vars, dispatch_vars,
                    client_vars, stop_vars,
                    cks_vars >>

\* error-code bytes of the Nak frames built: the four codes of the protocol,
\* their neighbours and the ends of the byte range
NakErrs == {0, 1, 2, 3, 4, 8, 16, 255}

\* create_nak is called; the error code is kept as the one byte of cargs.info
EncodeNak ==
    /\ cstage = "idle"
    /\ \E seq \in AckSeqs, addr \in AckAddrs, err_code \in NakErrs :
           /\ cargs' = [seq |-> seq, addr |-> addr, info |-> << err_code >>]
           /\ wire' = create_nak(seq, addr, err_code)
    /\ cstage' = "nak_encoded"
    /\ UNCHANGED << parsed, wire2, config_vars, session_vars, listener_vars,
                    client_address, sent_before_dispatch, io_failed, env_vars,
                    dispatch_vars,
                    client_vars, stop_vars,
                    cks_vars >>

\* parse_frame applied to the Nak frame of create_nak
DecodeNak ==
    /\ cstage = "nak_encoded"
    /\ parsed' = parse_frame(wire)
    /\ cstage' = "nak_decoded"
    /\ UNCHANGED << cargs, wire, wire2, config_vars, session_vars,
                    listener_vars, client_address, sent_before_dispatch,
                    io_failed, env_vars, dispatch_vars,
                    client_vars, stop_vars,
                    cks_vars >>

\* the control center builds a Data frame (length field = total byte count)
EncodePeerData ==
    /\ cstage = "idle"
    /\ \E seq \in Seqs, addr \in Addrs, info \in CodecInfos :
           /\ cargs' = [seq |-> seq, addr |-> addr, info |-> info]
           /\ wire' = client_create_data_request(seq, addr, info)
    /\ cstage' = "peer_encoded"
    /\ UNCHANGED << parsed, wire2, config_vars, session_vars, listener_vars,
                    client_address, sent_before_dispatch, io_failed, env_vars,
                    dispatch_vars,
                    client_vars, stop_vars,
                    cks_vars >>

\* the server's parse_frame applied to the control center's Data frame
DecodePeerData ==
    /\ cstage = "peer_encoded"
    /\ parsed' = parse_frame(wire)
    /\ cstage' = "peer_decoded"
    /\ UNCHANGED << cargs, wire, wire2, config_vars, session_vars,
                    listener_vars, client_address, sent_before_dispatch,
                    io_failed, env_vars, dispatch_vars,
                    client_vars, stop_vars,
                    cks_vars >>

\* byte sequences and frame types calculate_cks is called with: the three
\* known types, the empty string and two unknown ones
CksBytes == {0, 1, DLE, 255}

CksInputs == SeqsUpTo(CksBytes, MaxCksLen)

FrameTypes == {"normal", "ack", "nak", "", "data", "NAK"}

CalculateCks ==
    /\ cstage = "idle"
    /\ \E data \in CksInputs, frame_type \in FrameTypes :
           /\ wire' = data
           /\ cks_type' = frame_type
           /\ cks_value' = calculate_cks(data, frame_type)
    /\ cstage' = "cks"
    /\ UNCHANGED << cargs, wire2, parsed, config_vars, session_vars,
                    listener_vars, client_address, sent_before_dispatch,
                    io_failed, env_vars, dispatch_vars, client_vars,
                    stop_vars >>

\* parse_frame applied to the empty string, to short strings and to headers
\* cut short
DecodeShort ==
    /\ cstage = "idle"
    /\ \E data \in RawStrings \cup Truncated \cup { << >> } :
           /\ wire' = data
           /\ parsed' = parse_frame(data)
    /\ cstage' = "decoded_short"
    /\ UNCHANGED << cargs, wire2, config_vars, session_vars, listener_vars,
                    client_address, sent_before_dispatch, io_failed, env_vars,
                    dispatch_vars, client_vars, stop_vars,
                    cks_vars >>

\* the control center's Data frame reaches the server in two reads: the
\* first k bytes, then the rest
SplitPeerData ==
    /\ cstage = "peer_encoded"
    /\ \E k \in 1..(Len(wire) - 1) :
           /\ wire' = SubSeq(wire, 1, k)
           /\ wire2' = SubSeq(wire, k + 1, Len(wire))
    /\ parsed' = parse_frame(wire')
    /\ cstage' = "split"
    /\ UNCHANGED << cargs, config_vars, session_vars, listener_vars,
                    client_address, sent_before_dispatch, io_failed, env_vars,
                    dispatch_vars, client_vars, stop_vars,
                    cks_vars >>

\* the control center's Data frame and its next one (the same request under
\* the next sequence number) reach the server in one read
JoinPeerData ==
    /\ cstage = "peer_encoded"
    /\ wire2' = client_create_data_request(NextSequenceNumber(cargs.seq),
                                           cargs.addr, cargs.info)
    /\ parsed' = parse_frame(wire \o wire2')
    /\ cstage' = "joined"
    /\ UNCHANGED << cargs, wire, config_vars, session_vars, listener_vars,
                    client_address, sent_before_dispatch, io_failed, env_vars,
                    dispatch_vars, client_vars, stop_vars,
                    cks_vars >>

InitCodec ==
    /\ control_center_ip = "None" /\ is_test_mode = FALSE
    /\ SessionIdle /\ CodecIdle /\ DispatchIdle /\ ClientIdle /\ StopIdle

NextCodec ==
    \/ EncodeData
    \/ FlipBit
    \/ Decode
    \/ DecodeRaw
    \/ DecodeRawAck
    \/ EncodeAck
    \/ DecodeAck
    \/ EncodeNak
    \/ DecodeNak
    \/ EncodePeerData
    \/ DecodePeerData
    \/ DecodeShort
    \/ CalculateCks
    \/ SplitPeerData
    \/ JoinPeerData

SpecCodec == InitCodec /\ [][NextCodec]_vars

(***************************************************************************)
(* Dispatcher harness: process_message is applied to a decoded frame.      *)
(***************************************************************************)
Dispatch ==
    /\ mstage = "idle"
    /\ \E seq \in Seqs, info \in DispatchInfos, current_time \in Clocks :
           /\ mframe' = ParseOk(seq, 1, 10 + Len(info), info)
           /\ mnow' = current_time
           /\ mreply' = process_message(mframe', current_time)
    /\ mstage' = "done"
    /\ UNCHANGED << config_vars, session_vars, listener_vars, client_address,
                    sent_before_dispatch, io_failed, env_vars, codec_vars,
                    client_vars, stop_vars >>

InitDispatch ==
    /\ control_center_ip = "None" /\ is_test_mode = FALSE
    /\ SessionIdle /\ CodecIdle /\ DispatchIdle /\ ClientIdle /\ StopIdle

NextDispatch == Dispatch

SpecDispatch == InitDispatch /\ [][NextDispatch]_vars

(***************************************************************************)
(* Properties of the frame codec (SpecCodec).                              *)
(***************************************************************************)

\* C1: Data round trip.  Parsing the frame create_data_request built for
\* (seq, addr, info) succeeds and returns seq, addr and info equal to the
\* inputs.
C1_RoundTrip ==
    cstage = "decoded" =>
        /\ parsed.kind = "ok"
        /\ parsed.seq = cargs.seq
        /\ parsed.addr = cargs.addr
        /\ parsed.info = cargs.info

PayloadOf(bytes) == Slice(bytes, 7, Len(bytes) - 3)

\* the dispatched message has a type and a code
MHasRoute == mstage = "done" /\ Len(mframe.info) >= 2

MType == mframe.info[1]

MCode == mframe.info[2]

MData == SubSeq(mframe.info, 3, Len(mframe.info))

\* C7: Reset command.  Dispatching type 0x0F, code 0x10 returns a reply whose
\* payload is 0F 90 52 52, whatever data bytes follow the code (none
\* included).
C7_ResetReply ==
    (MHasRoute /\ MType = 15 /\ MCode = 16) =>
        /\ ~mreply.none
        /\ Len(mreply.bytes) = 14
        /\ PayloadOf(mreply.bytes) = << 15, 144, 82, 82 >>
        /\ mreply.bytes[12] = DLE /\ mreply.bytes[13] = ETX

C7_Witness ==
    /\ MHasRoute /\ MType = 15 /\ MCode = 16
    /\ MData = << 0, 82 >>
    /\ PayloadOf(mreply.bytes) = << 15, 144, 82, 82 >>

\* the time-sync data is 7 bytes with month, day, weekday, hour, minute and
\* second in their ranges
MTimeValid ==
    /\ Len(MData) = 7
    /\ MData[2] \in 1..12 /\ MData[3] \in 1..31 /\ MData[4] \in 1..7
    /\ MData[5] \in 0..23 /\ MData[6] \in 0..59 /\ MData[7] \in 0..59

\* requested seconds of day minus local seconds of day
MSignedDrift ==
    (MData[5] * 3600 + MData[6] * 60 + MData[7])
    - (mnow.tm_hour * 3600 + mnow.tm_min * 60 + mnow.tm_sec)

MDrift == IF MSignedDrift < 0 THEN 0 - MSignedDrift ELSE MSignedDrift

\* C8: Time-sync boundary.  For a time-sync command with 7 valid data bytes,
\* drift <= 3 yields the accepted payload 0F 80 0F 12, and drift > 3 yields
\* the drift report 0F 92 min(drift, 128).
C8_TimeSyncBoundary ==
    (MHasRoute /\ MType = 15 /\ MCode = 18 /\ MTimeValid) =>
        /\ ~mreply.none
        /\ MDrift <= 3 => PayloadOf(mreply.bytes) = << 15, 128, 15, 18 >>
        /\ (MDrift > 3 /\ MDrift <= 128) =>
               PayloadOf(mreply.bytes) = << 15, 146, MDrift >>
        /\ MDrift > 128 => PayloadOf(mreply.bytes) = << 15, 146, 128 >>

\* the request is 200 seconds ahead of the local clock and the report says 128
C8_Witness ==
    /\ MHasRoute /\ MType = 15 /\ MCode = 18 /\ MTimeValid
    /\ MSignedDrift = 200
    /\ PayloadOf(mreply.bytes) = << 15, 146, 128 >>

\* C9: Time-sync validation.  A time-sync command produces no reply exactly
\* when its data is not 7 bytes or a field other than the year is out of
\* range.
C9_TimeSyncValidation ==
    (MHasRoute /\ MType = 15 /\ MCode = 18) =>
        (mreply.none <=> ~MTimeValid)

\* only the weekday is out of range (0), and there is no reply
C9_Witness ==
    /\ MHasRoute /\ MType = 15 /\ MCode = 18
    /\ Len(MData) = 7 /\ MData[4] = 0
    /\ MData[2] = 12 /\ MData[3] = 31 /\ MData[5] = 12 /\ MData[6] = 0
    /\ MData[7] = 0
    /\ mreply.none

\* C10: Unrouted messages.  process_message returns no reply for types 0x5F
\* and 0x6F, for types outside {0x0F, 0x5F, 0x6F}, for type 0x0F with a code
\* other than 0x10 and 0x12, and for payloads shorter than 2 bytes.
C10_Unrouted ==
    (/\ mstage = "done"
     /\ \/ Len(mframe.info) < 2
        \/ MType # 15
        \/ MCode \notin {16, 18}) => mreply.none

\* a signal-controller message that carries the reset code
C10_Witness ==
    /\ MHasRoute /\ MType = 95 /\ MCode = 16 /\ MData = << 82, 82 >>
    /\ mreply.none

\* the length field of a Data-kind byte string
LengthField(data) == from_bytes2(At(data, 5), At(data, 6))

\* a byte string of at least 7 bytes that starts DLE STX
IsDataKind(data) ==
    Len(data) >= 7 /\ At(data, 0) = DLE /\ At(data, 1) = STX

\* C11: Length check on Data frames.  parse_frame rejects every Data-kind
\* byte string whose byte count disagrees with its length field, whichever of
\* the two conventions (the field counts the checksum byte, or does not) is
\* the adopted one: extra bytes and length fields of 0 or 1 included.
C11_LengthChecked ==
    (/\ cstage = "decoded_raw" /\ IsDataKind(wire)
     /\ LengthField(wire) \notin { Len(wire), Len(wire) - 1 })
        => parsed.kind # "ok"

\* C20: Ack encoding and round trip.  create_ack and create_ack_frame build
\* the same 8 bytes DLE ACK seq addr(2, big-endian) 00 08 cks, cks being the
\* XOR of the 7 bytes before it, and parse_frame of them returns seq, addr,
\* length 8 and empty info.
C20_AckRoundTrip ==
    /\ cstage \in {"ack_encoded", "ack_decoded"} =>
           /\ wire = << DLE, ACK, cargs.seq,
                        cargs.addr \div 256, cargs.addr % 256, 0, 8,
                        Xor(Xor(Xor(DLE, ACK),
                                Xor(cargs.seq, cargs.addr \div 256)),
                            Xor(cargs.addr % 256, 8)) >>
           /\ wire2 = wire
    /\ cstage = "ack_decoded" =>
           /\ parsed.kind = "ok"
           /\ parsed.seq = cargs.seq /\ parsed.addr = cargs.addr
           /\ parsed.length = 8 /\ parsed.info = << >>

\* the Ack for seq 255 at address 0x0102, built and parsed back
C20_Witness ==
    /\ cstage = "ack_decoded" /\ cargs.seq = 255 /\ cargs.addr = 258
    /\ wire = << DLE, ACK, 255, 1, 2, 0, 8, 131 >>
    /\ parsed.kind = "ok" /\ parsed.addr = 258

\* the 9 bytes DLE NAK seq addr(2, big-endian) 00 09 err cks for cargs
NakLayout ==
    wire = << DLE, NAK, cargs.seq, cargs.addr \div 256, cargs.addr % 256,
              0, 9, cargs.info[1],
              Xor(Xor(Xor(DLE, NAK), Xor(cargs.seq, cargs.addr \div 256)),
                  Xor(Xor(cargs.addr % 256, 9), cargs.info[1])) >>

\* parse_frame returned seq, addr, length 9 and the error code as info
NakParsedBack ==
    /\ parsed.kind = "ok"
    /\ parsed.seq = cargs.seq /\ parsed.addr = cargs.addr
    /\ parsed.length = 9 /\ parsed.info = cargs.info

\* C21 as stated: Nak encoding and round trip.  For every seq, addr and
\* error-code byte, create_nak builds DLE NAK seq addr 00 09 err cks and
\* parse_frame of it returns seq, addr, length 9 and info = err.
C21_NakRoundTripAnyErr ==
    /\ cstage \in {"nak_encoded", "nak_decoded"} => NakLayout
    /\ cstage = "nak_decoded" => NakParsedBack

\* C21: Nak encoding and round trip.  For every seq, addr and error-code
\* byte, create_nak builds DLE NAK seq addr 00 09 err cks; parse_frame of it
\* returns seq, addr, length 9 and info = err when err is one of 0x01, 0x02,
\* 0x04, 0x08, and returns None (without raising) for every other err.
C21_NakRoundTrip ==
    /\ cstage \in {"nak_encoded", "nak_decoded"} => NakLayout
    /\ cstage = "nak_decoded" =>
           IF cargs.info[1] \in {1, 2, 4, 8}
           THEN NakParsedBack
           ELSE parsed.kind = "none"

\* Nak(255, 0x0102, 0x08) built and parsed back
C21_Witness ==
    /\ cstage = "nak_decoded"
    /\ cargs = [seq |-> 255, addr |-> 258, info |-> << 8 >>]
    /\ parsed.kind = "ok" /\ parsed.info = << 8 >>

\* the XOR of the bytes of s
RECURSIVE XorFold(_)
XorFold(s) == IF s = << >> THEN 0 ELSE Xor(Head(s), XorFold(Tail(s)))

\* DLE STX seq addr(2, big-endian) length(2, big-endian) info DLE ETX cks for
\* cargs and the given length field, cks being the XOR of all bytes before it
DataLayout(length) ==
    LET n == Len(cargs.info)
    IN  /\ Len(wire) = 10 + n
        /\ SubSeq(wire, 1, 7) =
               << DLE, STX, cargs.seq, cargs.addr \div 256, cargs.addr % 256,
                  length \div 256, length % 256 >>
        /\ SubSeq(wire, 8, 7 + n) = cargs.info
        /\ wire[8 + n] = DLE /\ wire[9 + n] = ETX
        /\ wire[10 + n] = XorFold(SubSeq(wire, 1, 9 + n))

\* C22: Data frame layout.  create_data_request returns 10 + len(info)
\* bytes: DLE STX, seq, addr, a length field of 9 + len(info) (the checksum
\* byte not counted), info, DLE ETX and the XOR of all bytes before it.
C22_DataLayout ==
    cstage \in {"encoded", "decoded"} => DataLayout(9 + Len(cargs.info))

\* a frame with two info bytes: 12 bytes, length field 11
C22_Witness ==
    /\ cstage = "encoded" /\ cargs.seq = 255 /\ cargs.addr = 1
    /\ cargs.info = << 15, 16 >>
    /\ Len(wire) = 12 /\ wire[6] = 0 /\ wire[7] = 11

\* C23: Decoding a Data frame whose length field counts the checksum.  The
\* frame DLE STX seq addr LEN info DLE ETX cks with LEN = 10 + len(info), its
\* byte count, is decoded to seq, addr, length = LEN and the original info.
C23_TotalLengthDecodes ==
    /\ cstage \in {"peer_encoded", "peer_decoded"} =>
           DataLayout(10 + Len(cargs.info))
    /\ cstage = "peer_decoded" =>
           /\ parsed.kind = "ok"
           /\ parsed.seq = cargs.seq /\ parsed.addr = cargs.addr
           /\ parsed.length = Len(wire)
           /\ parsed.info = cargs.info

\* a frame whose info is the two bytes DLE ETX, decoded
C23_Witness ==
    /\ cstage = "peer_decoded" /\ cargs.info = << DLE, ETX >>
    /\ cargs.seq = 255 /\ cargs.addr = 65535
    /\ parsed.kind = "ok" /\ parsed.info = << DLE, ETX >>

\* exactly 8 bytes, length field 8, last byte the XOR of the first 7
AckAcceptable(data) ==
    /\ Len(data) = 8
    /\ data[6] * 256 + data[7] = 8
    /\ data[8] = XorFold(SubSeq(data, 1, 7))

\* C30 as stated: Ack decoding is strict.  parse_frame accepts a byte string
\* whose second byte is ACK if and only if it is exactly 8 bytes long, its
\* length field equals 8 and its last byte is the XOR of the first 7 bytes;
\* an accepted Ack has empty info.
C30_AckStrictAnyStart ==
    (cstage = "decoded_raw_ack" /\ wire[2] = ACK) =>
        /\ (parsed.kind = "ok") <=> AckAcceptable(wire)
        /\ parsed.kind = "ok" => parsed.info = << >>

\* C30, amended: the equivalence holds for the byte strings that begin with
\* DLE; a string with another first byte is rejected whatever follows.
C30_AckStrict ==
    (cstage = "decoded_raw_ack" /\ wire[2] = ACK) =>
        /\ (parsed.kind = "ok") <=> (wire[1] = DLE /\ AckAcceptable(wire))
        /\ parsed.kind = "ok" => parsed.info = << >>

\* an Ack of 8 bytes with length field 8 and the right checksum is accepted
C30_Witness ==
    /\ cstage = "decoded_raw_ack"
    /\ wire = << DLE, ACK, 1, 0, 1, 0, 8, 127 >>
    /\ parsed.kind = "ok" /\ parsed.info = << >> /\ parsed.seq = 1

\* the stages at which `parsed` is the server's parse_frame of `wire`
ParsedStages == {"decoded", "decoded_flipped", "decoded_raw",
                 "decoded_raw_ack", "ack_decoded", "nak_decoded",
                 "peer_decoded"}

\* C32: One decoding convention.  The simulator's parse_frame accepts a byte
\* string exactly when the server's parse_frame does, and then returns the
\* same seq, addr, length and info.
C32_SameDecoding ==
    cstage \in ParsedStages =>
        LET theirs == client_parse_frame(wire)
        IN  /\ (theirs.kind = "ok") <=> (parsed.kind = "ok")
            /\ parsed.kind = "ok" =>
                   /\ theirs.seq = parsed.seq /\ theirs.addr = parsed.addr
                   /\ theirs.length = parsed.length
                   /\ theirs.info = parsed.info

\* C33 (SpecDispatch): Replies are decodable.  Every reply frame returned by
\* the dispatcher has a length field equal to its byte count and a last byte
\* equal to the XOR of the bytes before it, and both parsers decode it to its
\* payload (the bytes between the length field and DLE ETX).
C33_RepliesDecodable ==
    (mstage = "done" /\ ~mreply.none) =>
        LET reply == mreply.bytes
            n     == Len(reply)
        IN  /\ n >= 10
            /\ reply[6] * 256 + reply[7] = n
            /\ reply[n] = XorFold(SubSeq(reply, 1, n - 1))
            /\ parse_frame(reply).kind = "ok"
            /\ parse_frame(reply).info = SubSeq(reply, 8, n - 3)
            /\ client_parse_frame(reply).kind = "ok"
            /\ client_parse_frame(reply).info = SubSeq(reply, 8, n - 3)

\* C37 (SpecCodec): Framing is independent of stream segmentation.  When the
\* bytes of wire and wire2 reach the server in Idle, what it sends does not
\* depend on whether they arrive in one read or in two: a frame split over
\* two reads is answered as the whole frame is, and two frames in one read
\* are answered as the two frames read one after the other in Idle are (the
\* first of them being one that gets no reply, so that the second is read in
\* Idle too).
C37_SegmentationIndependent ==
    \A current_time \in SessionClocks :
        (\/ cstage = "split"
         \/ cstage = "joined" /\ Len(IdleSends(wire, current_time)) = 1) =>
            IdleSends(wire \o wire2, current_time)
              = IdleSends(wire, current_time) \o IdleSends(wire2, current_time)

\* C39 (SpecCodec): parse_frame is total.  For every byte string it returns
\* a result or None and never raises; strings shorter than 6 bytes, strings
\* whose first byte is not DLE and strings whose second byte is none of STX,
\* ACK, NAK give None.
C39_ParseTotal ==
    cstage \in ParsedStages \cup {"decoded_short", "split", "joined"} =>
        LET data == IF cstage = "joined" THEN wire \o wire2 ELSE wire
        IN  /\ parsed.kind \in {"ok", "none"}
            /\ Len(data) < 6 => parsed.kind = "none"
            /\ (Len(data) >= 6 /\ (data[1] # DLE
                                    \/ data[2] \notin {STX, ACK, NAK})) =>
                   parsed.kind = "none"

\* bit i of byte b
BitOf(b, i) == (b \div (2 ^ i)) % 2

\* how many bytes of s have bit i set
RECURSIVE CountBit(_, _)
CountBit(s, i) ==
    IF s = << >> THEN 0 ELSE BitOf(Head(s), i) + CountBit(Tail(s), i)

\* C40 (SpecCodec): Checksum function.  For the frame types normal, ack and
\* nak calculate_cks returns the XOR of all bytes of the sequence: a byte
\* whose bit i is the parity of the number of bytes with bit i set (0 for the
\* empty sequence), the same for the three types; for any other frame type
\* it raises ValueError and returns no value.
C40_Checksum ==
    cstage = "cks" =>
        IF cks_type \in {"normal", "ack", "nak"}
        THEN /\ cks_value \in 0..255
             /\ \A i \in 0..7 : BitOf(cks_value, i) = CountBit(wire, i) % 2
             /\ wire = << >> => cks_value = 0
             /\ cks_value = calculate_cks(wire, "normal")
             /\ cks_value = calculate_cks(wire, "ack")
             /\ cks_value = calculate_cks(wire, "nak")
        ELSE cks_value = CksValueError

\* the checksum of three bytes under the type ack, and the error for an
\* unknown type
C40_Witness ==
    /\ cstage = "cks" /\ wire = << DLE, 1, 255 >>
    /\ cks_type = "ack" /\ cks_value = 84

(***************************************************************************)
(* Properties of the session (Spec).  rx holds the bytes of the last read  *)
(* in Idle, sent the frames sent since that read, rx2 the bytes read while *)
(* the final Ack was awaited (empty when no such read happened).           *)
(***************************************************************************)
\* the reset request of the end-to-end scenario: seq 1, addr 1, 0F 10 52 52
ResetRequest ==
    << DLE, STX, 1, 0, 1, 0, 14, 15, 16, 82, 82, DLE, ETX, 102 >>

\* Ack(seq = 1, addr = 1)
AckSeq1 == << DLE, ACK, 1, 0, 1, 0, 8, 127 >>

\* the two frames the scenario expects after the reset request
ResetAnswered ==
    /\ Len(sent) = 2
    /\ sent[1] = AckSeq1
    /\ At(sent[2], 0) = DLE /\ At(sent[2], 1) = STX /\ At(sent[2], 2) = 1
    /\ PayloadOf(sent[2]) = << 15, 144, 82, 82 >>

\* C2: End-to-end reset handshake.  After the reset Data frame (seq 1,
\* addr 1) the server has sent Ack(seq 1) and then a Data frame with seq 1 and
\* payload 0F 90 52 52 and waits for the final Ack; after the client's
\* Ack(seq 1) it has sent nothing more and is back in Idle.
C2_ResetHandshake ==
    /\ (/\ rx = ResetRequest /\ rx2 = << >> /\ sock = "open"
        /\ ~peer_closed /\ ~io_failed)
           => (pc = "await" /\ ResetAnswered)
    /\ (rx = ResetRequest /\ rx2 = AckSeq1 /\ sock = "open")
           => (pc = "recv" /\ ResetAnswered)

C2_Witness ==
    /\ rx = ResetRequest /\ rx2 = AckSeq1 /\ sock = "open"
    /\ pc = "recv" /\ Len(sent) = 2

\* C3: Session correlation.  Every Data frame the server has sent carries the
\* seq byte of the inbound frame it answers.
C3_ReplySeq ==
    \A i \in 1..Len(sent) :
        At(sent[i], 1) = STX => At(sent[i], 2) = At(rx, 2)

\* a drift report sent in answer to a request numbered 255
C3_Witness ==
    /\ pc = "await" /\ Len(sent) = 2
    /\ At(sent[2], 1) = STX /\ At(sent[2], 8) = 146
    /\ At(rx, 2) = 255 /\ At(sent[2], 2) = 255

\* C4: Bad start code mapping.  Every inbound byte string whose byte 0 is not
\* DLE is answered with a Nak whose ERR byte is 0x02.
C4_BadStartNak ==
    (rx # << >> /\ At(rx, 0) # DLE) =>
        /\ Len(sent) = 1
        /\ At(sent[1], 1) = NAK
        /\ At(sent[1], 7) = 2

\* C5: Invalid address.  A Data frame that decodes and whose addr is 0xFFFF
\* is answered with exactly one Nak(seq, 0xFFFF, 0x04): no Ack, no dispatch,
\* no reply Data frame, and the session stays in Idle (the pass not having
\* been cut short by an exception of recv or send).
C5_InvalidAddr ==
    (/\ rx # << >> /\ parse_frame(rx).kind = "ok"
     /\ ~io_failed
     /\ At(rx, 1) = STX
     /\ At(rx, 3) = 255 /\ At(rx, 4) = 255) =>
        /\ Len(sent) = 1
        /\ Len(sent[1]) = 9
        /\ SubSeq(sent[1], 1, 8) = << DLE, NAK, At(rx, 2), 255, 255, 0, 9, 4 >>
        /\ sent[1][9] = _xor_bytes(SubSeq(sent[1], 1, 8))
        /\ ~dispatched
        /\ rx2 = << >>
        /\ pc # "await"
        /\ sock = "open" => pc = "recv"

C5_Witness ==
    /\ rx = client_create_data_request(255, 65535, << 15, 16, 82, 82 >>)
    /\ frame.kind = "ok" /\ frame.addr = 65535
    /\ pc = "recv" /\ sock = "open"
    /\ Len(sent) = 1 /\ At(sent[1], 1) = NAK

\* C12: Decode failures are recoverable.  In Idle, every non-empty byte
\* string that does not decode is answered with exactly one Nak and the
\* session stays open at the Idle read (the peer not having closed and no
\* recv or send having failed).
C12_DecodeFailureNak ==
    (/\ rx # << >> /\ parse_frame(rx).kind # "ok"
     /\ ~peer_closed /\ ~io_failed) =>
        /\ Len(sent) = 1
        /\ At(sent[1], 0) = DLE /\ At(sent[1], 1) = NAK
        /\ sock = "open" /\ pc = "recv"

\* a Data frame was read in Idle, decoded, and its address is not 0xFFFF
DataServed ==
    /\ rx # << >> /\ parse_frame(rx).kind = "ok" /\ At(rx, 1) = STX
    /\ ~(At(rx, 3) = 255 /\ At(rx, 4) = 255)

\* C13: Ack before reply.  For every Data frame that decodes and whose
\* address is valid, the first frame sent is the one Ack, carrying the
\* frame's seq and addr; process_message is called after that Ack went out;
\* a reply Data frame, if any, is the second frame sent.
C13_AckBeforeReply ==
    (DataServed /\ ~io_failed) =>
        /\ Len(sent) >= 1
        /\ sent[1] = << DLE, ACK, At(rx, 2), At(rx, 3), At(rx, 4), 0, 8,
                        Xor(Xor(Xor(DLE, ACK), Xor(At(rx, 2), At(rx, 3))),
                            Xor(At(rx, 4), 8)) >>
        /\ \A i \in 2..Len(sent) : At(sent[i], 1) # ACK
        /\ dispatched /\ sent_before_dispatch = 1
        /\ \A i \in 1..Len(sent) : At(sent[i], 1) = STX => i = 2

\* the reset request at address 0x0102 answered by its Ack and the report
C13_Witness ==
    /\ rx = client_create_data_request(1, 258, << 15, 16, 82, 82 >>)
    /\ pc = "await" /\ Len(sent) = 2
    /\ At(sent[1], 1) = ACK /\ At(sent[2], 1) = STX

\* the 8 bytes DLE ACK SEQ ADDR(2) 00 08 CKS with CKS the XOR of the first 7
IsWellFormedAck(data) ==
    /\ Len(data) = 8
    /\ data[1] = DLE /\ data[2] = ACK /\ data[6] = 0 /\ data[7] = 8
    /\ data[8] = Xor(Xor(Xor(data[1], data[2]), Xor(data[3], data[4])),
                     Xor(Xor(data[5], data[6]), data[7]))

\* C14: Final Ack accepted.  When the bytes read after a reply are a
\* well-formed Ack whose seq is the seq of the request, nothing is sent after
\* the reply and the session is back at the Idle read.
C14_FinalAckAccepted ==
    (/\ rx2 # << >> /\ IsWellFormedAck(rx2)
     /\ At(rx2, 2) = At(rx, 2)) =>
        /\ Len(sent) = 2
        /\ At(sent[1], 1) = ACK /\ At(sent[2], 1) = STX
        /\ pc # "await"
        /\ sock = "open" => pc = "recv"

\* the Ack numbered 255 read after the reply to a request numbered 255
C14_Witness ==
    /\ rx2 = create_ack(255, 1) /\ At(rx, 2) = 255
    /\ pc = "recv" /\ sock = "open" /\ Len(sent) = 2

\* C15: Final Ack rejected.  When the bytes read after a reply are anything
\* but a well-formed Ack with the seq of the request, exactly one
\* Nak(seq, addr, 0x02) with the request's seq and addr is sent after the
\* reply and the session is back at the Idle read.
C15_FinalAckRejected ==
    (/\ rx2 # << >>
     /\ ~(IsWellFormedAck(rx2) /\ At(rx2, 2) = At(rx, 2))) =>
        /\ Len(sent) = 3
        /\ SubSeq(sent[3], 1, 8) =
               << DLE, NAK, At(rx, 2), At(rx, 3), At(rx, 4), 0, 9, 2 >>
        /\ pc # "await"
        /\ sock = "open" => pc = "recv"

\* data with its last byte replaced by the XOR of the bytes before it
WithGoodCks(data) ==
    [data EXCEPT ![Len(data)] = XorFold(SubSeq(data, 1, Len(data) - 1))]

\* data fails to decode and would decode with the right checksum byte
FailsOnlyOnCks(data) ==
    /\ Len(data) >= 2
    /\ parse_frame(data).kind = "none"
    /\ parse_frame(WithGoodCks(data)).kind = "ok"

\* data fails one of the parser's length tests
FailsOnLength(data) ==
    /\ parse_frame(data).kind = "none"
    /\ parse_frame(data).err \in {"LengthMismatch", "BadLength"}

\* C24: Nak error-code mapping by failure cause.  The Nak for bytes that fail
\* to decode carries ERR 0x01 when only the checksum byte is wrong, ERR 0x08
\* when the length is wrong, ERR 0x02 for any other structural failure; ERR
\* 0x04 is sent only for a decoded frame with the invalid address.
C24_NakErrByCause ==
    /\ (/\ rx # << >> /\ ~io_failed /\ parse_frame(rx).kind = "none") =>
           /\ Len(sent) = 1 /\ At(sent[1], 1) = NAK
           /\ At(sent[1], 7) = IF FailsOnlyOnCks(rx) THEN 1
                                ELSE IF FailsOnLength(rx) THEN 8
                                ELSE 2
    /\ \A i \in 1..Len(sent) :
           (At(sent[i], 1) = NAK /\ At(sent[i], 7) = 4) =>
               (parse_frame(rx).kind = "ok" /\ parse_frame(rx).addr = 65535)

\* the last accepted connection was closed by the allow-list test: nothing
\* was read from it and nothing sent to it
Rejected ==
    /\ sock = "closed" /\ pc = "accept"
    /\ rx = << >> /\ rx2 = << >> /\ sent = << >>
    /\ ~peer_closed /\ ~io_failed /\ ~dispatched

\* C17 as stated: Allow-list.  With test mode off, a connection from an IP
\* other than the configured control-center IP is closed right after accept,
\* nothing read and nothing sent, whatever the configuration (a missing one
\* included); with test mode on every connection is served.
C17_AllowListAlways ==
    /\ (~is_test_mode /\ client_address \notin {"none", control_center_ip})
           => Rejected
    /\ (is_test_mode /\ client_address # "none") => ~Rejected

\* C17: Allow-list.  With test mode off and a control-center IP configured,
\* a connection from another IP is closed right after accept, nothing read
\* and nothing sent; with test mode on, or with no control-center IP loaded,
\* or from the control center's IP, every connection is served.
C17_AllowList ==
    /\ (/\ ~is_test_mode /\ control_center_ip # "None"
        /\ client_address \notin {"none", control_center_ip})
           => Rejected
    /\ (/\ client_address # "none"
        /\ \/ is_test_mode
           \/ control_center_ip = "None"
           \/ client_address = control_center_ip)
           => ~Rejected

\* a connection from 10.0.0.2 turned away by a server configured for 10.0.0.1
C17_Witness ==
    /\ ~is_test_mode /\ control_center_ip = "10.0.0.1"
    /\ client_address = "10.0.0.2" /\ Rejected

\* C19: Peer faults are confined to their session.  Once a connection has
\* been accepted, whatever the peer sends and whatever recv or send raises,
\* the listener keeps running with its socket open; when the session has
\* ended the server is back in accept() and can take the next connection.
C19_FaultsConfined ==
    sock # "none" =>
        /\ running /\ server_socket = "listening"
        /\ pc \in {"accept", "recv", "await"}
        /\ sock = "closed" => (pc = "accept" /\ ENABLED Accept)

\* a session ended by the exception of the parser, the listener still up
C19_Witness ==
    /\ frame.kind = "raise" /\ sock = "closed"
    /\ pc = "accept" /\ running /\ server_socket = "listening"

\* C38: Every accepted connection is closed.  Whenever handle_client has
\* returned (the server is back in accept() after a connection), the client
\* socket is closed; the socket is open only while the session is at one of
\* its reads; and handle_client has raised nothing to the accept loop: the
\* loop has not been left.
C38_ConnectionClosed ==
    sock # "none" =>
        /\ pc = "accept" => sock = "closed"
        /\ sock = "open" => pc \in {"recv", "await"}
        /\ pc # "stopped" /\ running

\* a session ended by an exception of recv or send, its socket closed
C38_Witness ==
    /\ io_failed /\ sock = "closed" /\ pc = "accept" /\ running

(***************************************************************************)
(* Properties of the listener and the session under SpecLive.              *)
(***************************************************************************)
\* C16: Bounded wait for the final Ack.  When the peer sends nothing after
\* the reply, the wait ends: the server sends Nak(seq, addr, 0x02) and is
\* back at the Idle read.
C16_BoundedWait ==
    (pc = "await" /\ quiet) ~>
        (/\ pc = "recv" /\ Len(sent) = 3
         /\ At(sent[3], 1) = NAK /\ At(sent[3], 7) = 2)

\* C18: Concurrent sessions.  While a session is open, a connection that
\* waits is eventually accepted (and so served) whether or not the open
\* session ends.
C18_SecondClientServed ==
    (sock = "open" /\ waiting = MaxWaiting) ~> (waiting < MaxWaiting)

\* the payload read in Idle is one for which the handlers produce no reply:
\* too short to be routed, an unknown or reserved route, or time-sync data
\* failing validation
NoReplyCase ==
    LET info == parse_frame(rx).info
    IN  \/ Len(info) < 2
        \/ At(info, 0) \notin {15, 95, 111}
        \/ At(info, 0) \in {95, 111}
        \/ At(info, 0) = 15 /\ At(info, 1) \notin {16, 18}
        \/ /\ At(info, 0) = 15 /\ At(info, 1) = 18
           /\ \/ Len(info) # 9
              \/ ~TimeFieldsValid(At(info, 3), At(info, 4), At(info, 5),
                                  At(info, 6), At(info, 7), At(info, 8))

\* C26: No reply means no Nak and no wait.  When a Data frame that decodes,
\* with a valid address, is dispatched and the handler produces no reply, the
\* only frame sent is the Ack (no Data frame, no Nak), the server is not
\* waiting for a final Ack, and it is back at the Idle read with the session
\* open (the peer not having closed and no recv or send having failed).
C26_NoReplyNoWait ==
    (DataServed /\ NoReplyCase /\ ~peer_closed /\ ~io_failed) =>
        /\ dispatched
        /\ sent = << create_ack(At(rx, 2),
                                from_bytes2(At(rx, 3), At(rx, 4))) >>
        /\ rx2 = << >>
        /\ pc = "recv" /\ sock = "open"

\* a request on the reserved signal-controller route, acknowledged and not
\* answered
C26_Witness ==
    /\ rx = client_create_data_request(1, 1, << 95, 16 >>)
    /\ sent = << create_ack(1, 1) >>
    /\ dispatched /\ pc = "recv" /\ sock = "open" /\ ~peer_closed

\* C27: Best-effort Nak addressing.  When bytes read in Idle do not decode,
\* the Nak sent carries byte 2 of the raw bytes as its seq and bytes 3-4 as
\* its addr whenever the raw bytes have them (5 bytes or more), whatever the
\* frame kind or the cause of the failure, and seq 0 and addr 0 otherwise.
C27_BestEffortNak ==
    (/\ rx # << >> /\ parse_frame(rx).kind # "ok"
     /\ Len(sent) >= 1 /\ At(sent[1], 1) = NAK) =>
        IF Len(rx) >= 5
        THEN /\ At(sent[1], 2) = At(rx, 2)
             /\ At(sent[1], 3) = At(rx, 3) /\ At(sent[1], 4) = At(rx, 4)
        ELSE /\ At(sent[1], 2) = 0
             /\ At(sent[1], 3) = 0 /\ At(sent[1], 4) = 0

\* C28: Transport end terminates the session.  The step in which a read
\* returns end-of-stream, in Idle or while awaiting the final Ack, sends no
\* frame and ends the session: the client socket is closed and the server is
\* back in accept(), not at another read.
C28_EofEndsSession ==
    [][ (~peer_closed /\ peer_closed') =>
            /\ sent' = sent
            /\ sock' = "closed" /\ pc' = "accept"
      ]_vars

\* C29: Handlers do not touch session state.  In the pass that dispatches a
\* request, process_message and the handlers leave running, server_socket,
\* control_center_ip and is_test_mode unchanged and the connection open, and
\* send nothing themselves: what the pass sends is the Ack followed by the
\* returned reply, or the Ack alone when None is returned.
C29_HandlersPure ==
    [][ (/\ pc = "recv" /\ pc' \in {"recv", "await"}
         /\ dispatched' /\ ~io_failed') =>
            /\ UNCHANGED << running, server_socket, control_center_ip,
                            is_test_mode, sock >>
            /\ \E current_time \in SessionClocks :
                  LET response == process_message(frame', current_time)
                      ack_frame == create_ack_frame(frame'.seq, frame'.addr)
                  IN  sent' = IF response.none
                              THEN << ack_frame >>
                              ELSE << ack_frame, response.bytes >>
      ]_vars

\* the reset request dispatched and answered with the server still running
C29_Witness ==
    /\ rx = client_create_data_request(255, 1, << 15, 16, 82, 82 >>)
    /\ dispatched /\ pc = "await" /\ Len(sent) = 2
    /\ running /\ server_socket # "None" /\ sock = "open"

\* C34: Ack only for Data.  After a read in Idle of bytes that are not a
\* Data-kind frame (in particular a well-formed Ack or Nak), no frame sent is
\* an Ack and process_message has not been called.
C34_AckOnlyForData ==
    (rx # << >> /\ ~IsDataKind(rx)) =>
        /\ \A i \in 1..Len(sent) : At(sent[i], 1) # ACK
        /\ ~dispatched

\* C35: Reply address.  The reply Data frame sent after the Ack carries the
\* addr bytes of the inbound Data frame it answers, as the Ack does.
C35_ReplyAddr ==
    (DataServed /\ ~io_failed /\ Len(sent) >= 2 /\ At(sent[2], 1) = STX) =>
        /\ At(sent[1], 3) = At(rx, 3) /\ At(sent[1], 4) = At(rx, 4)
        /\ At(sent[2], 3) = At(rx, 3) /\ At(sent[2], 4) = At(rx, 4)

(***************************************************************************)
(* Properties of the control-center simulator (SpecClient).                *)
(***************************************************************************)
\* C25: Sequence generation.  The counter always fits in one byte; it changes
\* only in a step that originates a Data frame, and then by exactly 1 modulo
\* 256; the frame originated carries the new value of the counter.
C25_SeqGeneration ==
    [][ /\ sequence_number' \in 0..255
        /\ sequence_number' # sequence_number =>
               /\ sequence_number' = (sequence_number + 1) % 256
               /\ client_originated' /\ IsDataKind(client_tx')
               /\ At(client_tx', 2) = sequence_number'
        /\ (client_originated' /\ client_tx' # client_tx) =>
               /\ At(client_tx', 2) = (sequence_number + 1) % 256
               /\ sequence_number' = At(client_tx', 2)
      ]_vars

\* C31: Client-side correlation.  _send_request returns True, having sent
\* the final Ack, only if the frame it read as acknowledgement is an Ack and
\* the frame it read as response is a Data frame, both carrying the sequence
\* number of the request it sent.
C31_ClientCorrelation ==
    client_returned = "True" =>
        /\ At(client_ack_data, 1) = ACK
        /\ At(client_ack_data, 2) = At(client_tx, 2)
        /\ At(client_response_data, 1) = STX
        /\ At(client_response_data, 2) = At(client_tx, 2)
        /\ Len(client_sent) = 1 /\ At(client_sent[1], 1) = ACK

(***************************************************************************)
(* Properties of start() with stop() called from another thread (SpecStop). *)
(***************************************************************************)
\* C36: stop() always stops the listener.  Once a stop() called from another
\* thread has returned, running is False, server_socket is None and accept()
\* returns no further connection, wherever start() was when stop() ran.
C36_StopStops ==
    stop_returned >= 1 =>
        /\ ~running
        /\ server_socket = "None"
        /\ ~accepted_after_stop

====
